---- MODULE Spec2Model ----
(***************************************************************************)
(* Link categorization and CSV merge pipeline of src/utils.py, and the     *)
(* fan-outs that enrich the bucket files: the paper details of            *)
(* src/get_research_paper_details.py, the article contents of             *)
(* get_article_content.py and the documentation files of get_docs.py.     *)
(*                                                                         *)
(* Strings are TLA+ strings handled character by character (Len, SubSeq,   *)
(* \o), so substring tests, prefix tests, regular expressions, urlparse    *)
(* and the CSV cell conversions are computed on the text itself.           *)
(***************************************************************************)
EXTENDS Integers, Sequences, FiniteSets, TLC

VARIABLES input_file, files, domains_file, last, prevCat, adds, cu,
          nl, pp, ar, dc, ft, rt, na

\* nl: a file under ensure_newline_in_csv; pp: a run of download_and_save_paper;
\* ar: a run of fetch_article_contents_and_save_as_pdf; dc: a run of
\* process_directory
\* ft: a run of fetch_article_titles; rt: a call of get_content_list or of
\* convert_to_pdf_with_fallback; na: a call of add_new_articles
call_vars == <<ft, rt, na>>

fan_vars == <<nl, pp, ar, dc, call_vars>>

link_vars == <<input_file, files, domains_file, last, prevCat, adds>>

vars == <<input_file, files, domains_file, last, prevCat, adds, cu, nl, pp, ar, dc,
          ft, rt, na>>

\* the state of a program that is not running
Idle == [phase |-> "idle"]

(***************************************************************************)
(* Bounds of the model.                                                    *)
(***************************************************************************)
\* number of rows the upstream link gathering adds to to_parse.csv
MaxAdds == 2
\* number of lines of the allow-list file beyond which no pass is started
MaxDomainLines == 3

(***************************************************************************)
(* Text helpers (Python str semantics).                                    *)
(***************************************************************************)
UpperChars == "ABCDEFGHIJKLMNOPQRSTUVWXYZ"
LowerChars == "abcdefghijklmnopqrstuvwxyz"
WordChars == "abcdefghijklmnopqrstuvwxyzABCDEFGHIJKLMNOPQRSTUVWXYZ0123456789_"

\* s[i] of a str (1-based)
CharAt(s, i) == SubSeq(s, i, i)

\* `sub in s` of Python
Contains(s, sub) ==
    \E i \in 1..(Len(s) - Len(sub) + 1) : SubSeq(s, i, i + Len(sub) - 1) = sub

\* s.startswith(p)
StartsWith(s, p) == Len(p) <= Len(s) /\ SubSeq(s, 1, Len(p)) = p

LowerOfUpper == [c \in {CharAt(UpperChars, i) : i \in 1..Len(UpperChars)} |->
    CharAt(LowerChars, CHOOSE i \in 1..Len(UpperChars) : CharAt(UpperChars, i) = c)]

LowerChar(c) == IF c \in DOMAIN LowerOfUpper THEN LowerOfUpper[c] ELSE c

RECURSIVE Lower(_)
\* s.lower(), the case folding of re.IGNORECASE and of case=False on ASCII text
Lower(s) == IF s = "" THEN "" ELSE LowerChar(CharAt(s, 1)) \o Lower(SubSeq(s, 2, Len(s)))

\* index of the first character of s at or after position i that is one of
\* the characters of stops, Len(s) + 1 when there is none
RECURSIVE FindAny(_, _, _)
FindAny(s, stops, i) ==
    IF i > Len(s) THEN Len(s) + 1
    ELSE IF Contains(stops, CharAt(s, i)) THEN i
    ELSE FindAny(s, stops, i + 1)

\* index of the n-th occurrence of the character c in s, Len(s) + 1 when there
\* are fewer than n
RECURSIVE FindNth(_, _, _, _)
FindNth(s, c, n, i) ==
    IF i > Len(s) THEN Len(s) + 1
    ELSE IF CharAt(s, i) = c
         THEN IF n = 1 THEN i ELSE FindNth(s, c, n - 1, i + 1)
         ELSE FindNth(s, c, n, i + 1)

(***************************************************************************)
(* Regular expressions (module re), for the constructs the code uses: a    *)
(* pattern is a sequence of elements, a literal text, `.`, a one-or-more   *)
(* repetition of a character class, or `$`.                                *)
(***************************************************************************)
Lit(s) == [t |-> "lit", s |-> s]
Dot == [t |-> "dot", s |-> ""]
Plus(class) == [t |-> "plus", s |-> class]
End == [t |-> "end", s |-> ""]

InClass(c, class) ==
    CASE class = "any" -> TRUE                       \* .
      [] class = "notslash" -> c # "/"               \* [^/]
      [] class = "word" -> Contains(WordChars, c)    \* \w

RECURSIVE MatchAt(_, _, _, _)
\* the pattern p matches a prefix of s[i..]; ic stands for re.IGNORECASE
MatchAt(p, s, i, ic) ==
    IF p = <<>> THEN TRUE
    ELSE LET e == Head(p)
             rest == Tail(p)
         IN  CASE e.t = "lit" ->
                    LET j == i + Len(e.s) - 1
                    IN  /\ j <= Len(s)
                        /\ IF ic THEN Lower(SubSeq(s, i, j)) = Lower(e.s)
                                 ELSE SubSeq(s, i, j) = e.s
                        /\ MatchAt(rest, s, j + 1, ic)
               [] e.t = "dot" -> i <= Len(s) /\ MatchAt(rest, s, i + 1, ic)
               [] e.t = "plus" ->
                    \E k \in 1..(Len(s) - i + 1) :
                        /\ \A j \in i..(i + k - 1) : InClass(CharAt(s, j), e.s)
                        /\ MatchAt(rest, s, i + k, ic)
               [] e.t = "end" -> i = Len(s) + 1 /\ MatchAt(rest, s, i, ic)

\* re.match(pattern, url): the match is anchored at the start of the text
re_match(pattern, url) == MatchAt(pattern, url, 1, FALSE)

\* re.escape(domain) as a pattern: the text of domain taken literally
re_escape(domain) == <<Lit(domain)>>

\* re.match(pattern, url, re.IGNORECASE)
re_match_ignorecase(pattern, url) == MatchAt(pattern, url, 1, TRUE)

(***************************************************************************)
(* Cells of a DataFrame: a str, or the float nan of a missing value.       *)
(***************************************************************************)
\* float('nan'); read_csv never yields the str "NaN" (it is one of its
\* na_values), so the value is free to stand for the missing cell
NaN == "NaN"

\* the cell texts that pd.read_csv reads as a missing value (its default
\* na_values, those that occur in the model's files)
NaValues == {"", "NA", "NaN", "nan", "null"}

\* the parsing of one cell by pd.read_csv
parse_cell(text) == IF text \in NaValues THEN NaN ELSE text

\* the formatting of one cell by DataFrame.to_csv (na_rep = '')
format_cell(v) == IF v = NaN THEN "" ELSE v

(***************************************************************************)
(* The texts of the model: the rows that reach to_parse.csv and the        *)
(* allow-list files the first pass finds.                                  *)
(***************************************************************************)
TwitterStatusUrl == "https://twitter.com/bertcmiller/status/123"

\* rows that the upstream link gathering writes to to_parse.csv
InputRows == {
    [paper |-> TwitterStatusUrl, referrer |-> "x"],
    [paper |-> "https://b.co/insights/research/x", referrer |-> "x"],
    [paper |-> "https://b.co/insights/research/x", referrer |-> "y"],
    [paper |-> "https://b.co/insights/research/y", referrer |-> "x"],
    [paper |-> "https://www.galaxy.com/insights/research/x", referrer |-> "x"],
    [paper |-> "https://b.co/p.pdf", referrer |-> "x"],
    [paper |-> "https://dl.acm.org/p.pdf", referrer |-> "x"],
    [paper |-> "https://arxiv.org/abs/1", referrer |-> "y"],
    [paper |-> "https://youtu.be/v", referrer |-> "NA"],
    [paper |-> "", referrer |-> "x"] }

\* contents of websites.txt before the first pass
InitialDomainFiles == { <<>>, <<"https://c.io ">> }

\* the URL texts of the model.  The text functions below are pure, and their
\* values on these texts are computed once, in tables, and looked up.
ModelUrls == {parse_cell(row.paper) : row \in InputRows} \ {NaN}

(***************************************************************************)
(* urllib.parse.urlparse, for texts without ';' parameters.                *)
(***************************************************************************)
SchemeChars == "abcdefghijklmnopqrstuvwxyzABCDEFGHIJKLMNOPQRSTUVWXYZ0123456789+-."

\* the path of what follows the netloc: the text up to '?' or '#'
url_path(after) == SubSeq(after, 1, FindAny(after, "?#", 1) - 1)

\* the netloc runs from after the '//' to the next '/', '?' or '#'
split_netloc(scheme, rest, netloc_end) ==
    [scheme |-> scheme, netloc |-> SubSeq(rest, 3, netloc_end - 1),
     path |-> url_path(SubSeq(rest, netloc_end, Len(rest)))]

split_rest(scheme, rest) ==
    IF StartsWith(rest, "//") THEN split_netloc(scheme, rest, FindAny(rest, "/?#", 3))
    ELSE [scheme |-> scheme, netloc |-> "", path |-> url_path(rest)]

\* the scheme is the text before the first ':' when it starts with a letter
\* and holds scheme characters only; it is lower-cased
split_scheme(url, colon) ==
    IF /\ colon > 1
       /\ colon <= Len(url)
       /\ Contains(UpperChars \o LowerChars, CharAt(url, 1))
       /\ \A k \in 1..(colon - 1) : Contains(SchemeChars, CharAt(url, k))
    THEN split_rest(Lower(SubSeq(url, 1, colon - 1)), SubSeq(url, colon + 1, Len(url)))
    ELSE split_rest("", url)

urlparse_text(url) == split_scheme(url, FindAny(url, ":", 1))

UrlparseTable == [url \in ModelUrls |-> urlparse_text(url)]

urlparse(url) == IF url \in ModelUrls THEN UrlparseTable[url] ELSE urlparse_text(url)

\* '/'.join(path.split('/')[:3]): the text before the third '/' of path
sub_path_of(path) == SubSeq(path, 1, FindNth(path, "/", 3, 1) - 1)

(***************************************************************************)
(* The allow-list file: the sequence of its lines.                         *)
(***************************************************************************)
RECURSIVE strip(_)
\* line.strip() (the line break is not part of a line of the model)
strip(s) ==
    IF s = "" THEN ""
    ELSE IF CharAt(s, 1) = " " THEN strip(SubSeq(s, 2, Len(s)))
    ELSE IF CharAt(s, Len(s)) = " " THEN strip(SubSeq(s, 1, Len(s) - 1))
    ELSE s

RECURSIVE read_domains_from_file(_)
read_domains_from_file(file) ==
    IF file = <<>> THEN <<>>
    ELSE (IF strip(Head(file)) # "" THEN <<strip(Head(file))>> ELSE <<>>)
            \o read_domains_from_file(Tail(file))

\* an add_domain_to_file that opens the file in mode 'w'
add_domain_to_file_truncating(domain, file) == <<domain>>

\* add_domain_to_file: mode 'a', one line written at the end
add_domain_to_file(domain, file) == Append(file, domain)

\* lines 76 and 79-80: the prefix built from a parsed URL
domain_of(parsed_url) == parsed_url.scheme \o "://" \o parsed_url.netloc

final_domain_of(parsed_url) == domain_of(parsed_url) \o sub_path_of(parsed_url.path)

\* the entries the allow-list of the model can hold: the lines of the initial
\* files and the prefixes that lines 76-80 build from the URLs of the model
ModelDomains ==
    {strip(file[i]) : file \in {f \in InitialDomainFiles : f # <<>>}, i \in 1..1}
        \cup {final_domain_of(urlparse(url)) : url \in ModelUrls}

(***************************************************************************)
(* research_websites of the __main__ block (lines 222-226), its first      *)
(* three entries and 'dl.acm'.                                             *)
(***************************************************************************)
research_websites == <<"arxiv", "ssrn", "iacr", "dl.acm">>

SeqContains(seq, x) == \E i \in DOMAIN seq : seq[i] = x

(***************************************************************************)
(* url_patterns of the __main__ block (lines 202-217).                     *)
(***************************************************************************)
MainUrlPatterns == <<
    <<"notion_site", <<Lit("https://"), Plus("notslash"), Lit("/"), Plus("notslash"), End>> >>,
    <<"medium_article", <<Lit("https://"), Plus("word"), Lit(".medium.com/"), Plus("any")>> >>,
    <<"blog_metrika_article", <<Lit("https://blog.metrika.co/"), Plus("any")>> >>,
    <<"mirror_xyz_article_1", <<Lit("https://"), Plus("word"), Lit(".mirror.xyz/"), Plus("any")>> >>,
    <<"mirror_xyz_website", <<Lit("https://mirror.xyz/"), Plus("any")>> >>,
    <<"drive_google_article", <<Lit("https://drive.google.com/file/d/"), Plus("any")>> >>,
    <<"galaxy_insights_article_1", <<Lit("https://www.galaxy.com/insights/"), Plus("any"), Lit("/"), Plus("any")>> >>,
    <<"galaxy_insights_website", <<Lit("https://www.galaxy.com/insights/"), Plus("any")>> >>,
    <<"ethereum_notes_website", <<Lit("https://notes.ethereum.org/@"), Plus("notslash"), Lit("/"), End>> >>,
    <<"ethereum_notes_article", <<Lit("https://notes.ethereum.org/@"), Plus("notslash"), Lit("/"), Plus("notslash"), End>> >>,
    <<"medium_article_2", <<Lit("https://medium.com/"), Plus("any"), Lit("/"), Plus("any")>> >>,
    <<"medium_website", <<Lit("https://medium.com/"), Plus("any")>> >>,
    <<"twitter_website", <<Lit("https://twitter.com/"), Plus("notslash"), Lit("/"), End>> >>,
    <<"twitter_thread", <<Lit("https://twitter.com/bertcmiller/status/"), Plus("any")>> >>
  >>

(***************************************************************************)
(* Series.str.contains(pat, case=False): pat is a regular expression       *)
(* (regex=True is the default), searched anywhere in the cell.             *)
(***************************************************************************)
RECURSIVE compile_branch(_)
RECURSIVE compile_literal(_, _)
\* one branch of a pattern text: '.' is any character, the text up to the
\* next '.' is literal
compile_branch(pat) ==
    IF pat = "" THEN <<>>
    ELSE IF CharAt(pat, 1) = "." THEN <<Dot>> \o compile_branch(SubSeq(pat, 2, Len(pat)))
    ELSE compile_literal(pat, FindAny(pat, ".", 1))

compile_literal(pat, dot) ==
    <<Lit(SubSeq(pat, 1, dot - 1))>> \o compile_branch(SubSeq(pat, dot, Len(pat)))

RECURSIVE re_compile(_)
RECURSIVE compile_branches(_, _)
\* the branches of a pattern text with '|' alternation
re_compile(pat) == compile_branches(pat, FindAny(pat, "|", 1))

compile_branches(pat, bar) ==
    IF bar > Len(pat) THEN {compile_branch(pat)}
    ELSE {compile_branch(SubSeq(pat, 1, bar - 1))}
            \cup re_compile(SubSeq(pat, bar + 1, Len(pat)))

\* re.search(pat, text, re.IGNORECASE)
re_search_ignorecase_text(pat, text) ==
    \E branch \in re_compile(pat) :
        \E i \in 1..(Len(text) + 1) : MatchAt(branch, text, i, TRUE)

\* re.search(pat, text)
re_search(pat, text) ==
    \E branch \in re_compile(pat) :
        \E i \in 1..(Len(text) + 1) : MatchAt(branch, text, i, FALSE)

\* the patterns of lines 107-111
MaskPatterns ==
    {".pdf", "arxiv|ssrn|iacr", "arxiv", "ssrn", "iacr"}
        \cup {research_websites[k] : k \in DOMAIN research_websites}

SearchTable == [pat \in MaskPatterns |->
                   [text \in ModelUrls |-> re_search_ignorecase_text(pat, text)]]

re_search_ignorecase(pat, text) ==
    IF pat \in MaskPatterns /\ text \in ModelUrls THEN SearchTable[pat][text]
    ELSE re_search_ignorecase_text(pat, text)

\* df['paper'].str.contains(pat, case=False) on a frame without missing URL
str_contains(df, pat) == [i \in DOMAIN df |-> re_search_ignorecase(pat, df[i].paper)]


(***************************************************************************)
(* categorize_url                                                          *)
(***************************************************************************)
\* the test of line 86 (and of line 128)
is_twitter_status_text(url) == Contains(url, "twitter.com") /\ Contains(url, "/status/")

TwitterTable == [url \in ModelUrls |-> is_twitter_status_text(url)]

is_twitter_status(url) ==
    IF url \in ModelUrls THEN TwitterTable[url] ELSE is_twitter_status_text(url)

RECURSIVE any_pattern_matches_text(_, _)
\* the loop of lines 89-91 over url_patterns.items()
any_pattern_matches_text(items, url) ==
    IF items = <<>> THEN FALSE
    ELSE IF re_match(Head(items)[2], url) THEN TRUE
    ELSE any_pattern_matches_text(Tail(items), url)

PatternTable == [url \in ModelUrls |-> any_pattern_matches_text(MainUrlPatterns, url)]

any_pattern_matches(items, url) ==
    IF items = <<>> THEN FALSE
    ELSE IF items = MainUrlPatterns /\ url \in ModelUrls THEN PatternTable[url]
    ELSE any_pattern_matches_text(items, url)

\* the test of line 94 on one entry of existing_domains
domain_matches_text(domain, url) == re_match_ignorecase(re_escape(domain), url)

DomainTable == [domain \in ModelDomains |->
                   [url \in ModelUrls |-> domain_matches_text(domain, url)]]

domain_matches(domain, url) ==
    IF domain \in ModelDomains /\ url \in ModelUrls THEN DomainTable[domain][url]
    ELSE domain_matches_text(domain, url)

RECURSIVE any_domain_matches(_, _)
\* the loop of lines 93-95 over existing_domains
any_domain_matches(existing_domains, url) ==
    IF existing_domains = <<>> THEN FALSE
    ELSE IF domain_matches(Head(existing_domains), url) THEN TRUE
    ELSE any_domain_matches(Tail(existing_domains), url)

\* a categorize_url that consults the pattern table and the known domains
\* before the Twitter test
categorize_url_patterns_first(url, patterns, existing_domains) ==
    IF url = NaN THEN "TypeError"
    ELSE IF any_pattern_matches(patterns, url) THEN "article"
    ELSE IF any_domain_matches(existing_domains, url) THEN "article"
    ELSE IF is_twitter_status(url) THEN "Twitter thread"
    ELSE "website"

\* a categorize_url whose known-domain test is case-sensitive (re.IGNORECASE
\* left out)
categorize_url_case_sensitive(url, patterns, existing_domains) ==
    IF url = NaN THEN "TypeError"
    ELSE IF is_twitter_status(url) THEN "Twitter thread"
    ELSE IF any_pattern_matches(patterns, url) THEN "article"
    ELSE IF \E i \in DOMAIN existing_domains : StartsWith(url, existing_domains[i])
         THEN "article"
    ELSE "website"

\* categorize_url(url, url_patterns, existing_domains); "TypeError" is the
\* exception that `"twitter.com" in url` raises on a float
categorize_url(url, patterns, existing_domains) ==
    IF url = NaN THEN "TypeError"
    ELSE IF is_twitter_status(url) THEN "Twitter thread"
    ELSE IF any_pattern_matches(patterns, url) THEN "article"
    ELSE IF any_domain_matches(existing_domains, url) THEN "article"
    ELSE "website"

(***************************************************************************)
(* CSV files and DataFrames.  A file is the sequence of its data rows, each *)
(* the text of its two cells (the header line `paper,referrer` is implied); *)
(* a DataFrame is a sequence of rows whose cells are a str or NaN.          *)
(***************************************************************************)
\* pd.read_csv(filepath)
read_csv(file) ==
    [i \in DOMAIN file |->
        [paper |-> parse_cell(file[i].paper), referrer |-> parse_cell(file[i].referrer)]]

\* df.to_csv(filepath, index=False)
to_csv(df) ==
    [i \in DOMAIN df |->
        [paper |-> format_cell(df[i].paper), referrer |-> format_cell(df[i].referrer)]]

RECURSIVE select(_, _)
\* df[mask] for a boolean mask
select(df, mask) ==
    IF df = <<>> THEN <<>>
    ELSE (IF Head(mask) THEN <<Head(df)>> ELSE <<>>) \o select(Tail(df), Tail(mask))

\* drop_duplicates that compares whole rows (subset left out)
drop_duplicates_whole_row(df) ==
    select(df, [i \in DOMAIN df |-> ~ \E j \in 1..(i - 1) : df[j] = df[i]])

\* drop_duplicates with keep='last'
drop_duplicates_keep_last(df) ==
    select(df, [i \in DOMAIN df |-> ~ \E j \in (i + 1)..Len(df) : df[j].paper = df[i].paper])

\* a merge that leaves drop_duplicates out
drop_duplicates_missing(df) == df

\* combined_df.drop_duplicates(subset=['paper'], keep='first', inplace=True)
drop_duplicates(df) ==
    select(df, [i \in DOMAIN df |-> ~ \E j \in 1..(i - 1) : df[j].paper = df[i].paper])

(***************************************************************************)
(* parse_and_categorize_links, the definition of lines 69-83: the update   *)
(* of the allow-list.  The loop runs over the rows in order; urlparse      *)
(* raises on a missing value, which ends the loop with the lines written   *)
(* so far left in the file.                                                *)
(***************************************************************************)
\* lines 78-82 for one row: what becomes of the file and of the list
update_row(parsed_url, file, domains) ==
    IF /\ ~SeqContains(research_websites, domain_of(parsed_url))
       /\ ~SeqContains(domains, domain_of(parsed_url))
       /\ StartsWith(parsed_url.path, "/insights/research/")
    THEN [file |-> add_domain_to_file(final_domain_of(parsed_url), file),
          domains |-> Append(domains, final_domain_of(parsed_url))]
    ELSE [file |-> file, domains |-> domains]

RECURSIVE update_domains(_, _, _)
RECURSIVE update_rest(_, _)
\* the loop of lines 74-82
update_domains(df, file, domains) ==
    IF df = <<>> THEN [file |-> file, raised |-> FALSE]
    ELSE IF Head(df).paper = NaN THEN [file |-> file, raised |-> TRUE]
    ELSE update_rest(Tail(df), update_row(urlparse(Head(df).paper), file, domains))

update_rest(df, state) == update_domains(df, state.file, state.domains)

(***************************************************************************)
(* parse_and_categorize_links, the definition of lines 99-195: the         *)
(* categorization pass.                                                    *)
(***************************************************************************)
site_file(site) == site \o "_papers.csv"

BucketNames ==
    {"papers.csv", "arxiv_papers.csv", "ssrn_papers.csv", "iacr_papers.csv",
     "youtube_videos.csv", "articles.csv", "twitter_threads.csv", "websites.csv"}
        \cup {site_file(research_websites[k]) : k \in DOMAIN research_websites}

EmptyFiles == [f \in BucketNames |-> <<>>]

RECURSIVE dict_update(_, _)
\* dict.update: the value of a key already present is replaced in place, a new
\* key is added at the end
dict_update(items, updates) ==
    IF updates = <<>> THEN items
    ELSE LET kv == Head(updates)
         IN  IF \E k \in DOMAIN items : items[k][1] = kv[1]
             THEN dict_update([k \in DOMAIN items |->
                                  IF items[k][1] = kv[1] THEN kv ELSE items[k]],
                              Tail(updates))
             ELSE dict_update(Append(items, kv), Tail(updates))

\* line 107
pdf_mask(df) == [i \in DOMAIN df |->
    re_search_ignorecase(".pdf", df[i].paper)
        /\ ~re_search_ignorecase("arxiv|ssrn|iacr", df[i].paper)]

\* lines 108-111: the masks of the sites; arxiv_mask, ssrn_mask and iacr_mask
\* are site_mask(df, "arxiv"), ...
site_mask(df, site) == str_contains(df, site)

\* line 112
youtube_mask(df) == [i \in DOMAIN df |->
    \/ StartsWith(df[i].paper, "https://www.youtube.com/watch")
    \/ StartsWith(df[i].paper, "https://youtu.be/")]

\* line 116
articles_mask(df, patterns, domains) == [i \in DOMAIN df |->
    categorize_url(df[i].paper, patterns, domains) = "article"]

\* line 118
website_mask(df, patterns, domains) == [i \in DOMAIN df |->
    ~articles_mask(df, patterns, domains)[i]]

\* line 128
twitter_thread_mask(articles_df) == [i \in DOMAIN articles_df |->
    is_twitter_status(articles_df[i].paper)]

\* a keep_mask that leaves articles_mask out of line 143
keep_mask_without_articles(df, patterns, domains) == [i \in DOMAIN df |->
    ~ ( \/ pdf_mask(df)[i]
        \/ youtube_mask(df)[i]
        \/ \E k \in DOMAIN research_websites : site_mask(df, research_websites[k])[i] )]

\* lines 142-143
keep_mask(df, patterns, domains) == [i \in DOMAIN df |->
    ~ ( \/ pdf_mask(df)[i]
        \/ youtube_mask(df)[i]
        \/ \E k \in DOMAIN research_websites : site_mask(df, research_websites[k])[i]
        \/ articles_mask(df, patterns, domains)[i] )]

\* lines 155-164, given articles_df
paths_and_dfs_of(df, articles_df, websites_df) == <<
    <<"papers.csv", select(df, pdf_mask(df))>>,
    <<"arxiv_papers.csv", select(df, site_mask(df, "arxiv"))>>,
    <<"ssrn_papers.csv", select(df, site_mask(df, "ssrn"))>>,
    <<"iacr_papers.csv", select(df, site_mask(df, "iacr"))>>,
    <<"youtube_videos.csv", select(df, youtube_mask(df))>>,
    <<"articles.csv", articles_df>>,
    <<"twitter_threads.csv", select(articles_df, twitter_thread_mask(articles_df))>>,
    <<"websites.csv", websites_df>> >>

\* lines 139 and 167: the entries of the research sites
research_dfs(df) == [k \in DOMAIN research_websites |->
    <<site_file(research_websites[k]), select(df, site_mask(df, research_websites[k]))>>]

\* lines 106-167: the DataFrame of every bucket file and the rows kept in the
\* input; the frame holds no missing URL
categorize_frames(df, patterns, domains) ==
    [paths_and_dfs |->
        dict_update(paths_and_dfs_of(df, select(df, articles_mask(df, patterns, domains)),
                                     select(df, website_mask(df, patterns, domains))),
                    research_dfs(df)),
     kept |-> select(df, keep_mask(df, patterns, domains))]

\* lines 177-192 for one bucket file: read what is there, concatenate, drop
\* the duplicates, write the file again.  ensure_newline_in_csv (line 175)
\* leaves the file as it is: to_csv ends every file it writes with a line
\* break.
merge_into(file, new_df) ==
    to_csv(drop_duplicates((IF file # <<>> THEN read_csv(file) ELSE <<>>) \o new_df))

RECURSIVE save_buckets(_, _)
\* the loop of lines 170-192 over paths_and_dfs.items()
save_buckets(items, fs) ==
    IF items = <<>> THEN fs
    ELSE LET filename == Head(items)[1]
             new_df == Head(items)[2]
         IN  IF new_df # <<>>
             THEN save_buckets(Tail(items),
                               [fs EXCEPT ![filename] = merge_into(fs[filename], new_df)])
             ELSE save_buckets(Tail(items), fs)

\* the DataFrame that paths_and_dfs maps a file name to
new_df_of(items, filename) ==
    LET k == CHOOSE k \in DOMAIN items : items[k][1] = filename IN items[k][2]

(***************************************************************************)
(* State machine of the pipeline.                                          *)
(***************************************************************************)
\* the table that the __main__ block passes (line 227)
url_patterns == MainUrlPatterns

\* what the last step was and what it started from (history, for the
\* properties): the frame read, the allow-list file and the bucket files
\* before, the frame computed for each bucket file, and whether the pass read
\* the same frame and allow-list as the categorization pass before it
LastNone == [op |-> "none", raised |-> FALSE, input |-> <<>>, domains0 |-> <<>>,
             files0 |-> EmptyFiles, new |-> EmptyFiles, repeat |-> FALSE]

PrevNone == [valid |-> FALSE, input |-> <<>>, domains |-> <<>>]

CuIdle == [url |-> "", patterns |-> <<>>, domains |-> <<>>, result |-> "idle"]

Init ==
    /\ input_file = <<>>
    /\ files = EmptyFiles
    /\ domains_file \in InitialDomainFiles
    /\ last = LastNone
    /\ prevCat = PrevNone
    /\ adds = 0
    /\ cu = CuIdle
    /\ nl = Idle /\ pp = Idle /\ ar = Idle /\ dc = Idle
    /\ ft = Idle /\ rt = Idle /\ na = Idle

\* the link gathering appends one row to to_parse.csv
AddLink ==
    /\ adds < MaxAdds
    /\ \E row \in InputRows : input_file' = Append(input_file, row)
    /\ adds' = adds + 1
    /\ last' = [LastNone EXCEPT !.op = "add"]
    /\ UNCHANGED <<files, domains_file, prevCat, cu>>
    /\ UNCHANGED fan_vars

\* a run of the definition of lines 69-83
parse_and_categorize_links_domains ==
    /\ Len(domains_file) < MaxDomainLines
    /\ \E df \in {read_csv(input_file)} :
       \E out \in {update_domains(df, domains_file, read_domains_from_file(domains_file))} :
           /\ domains_file' = out.file
           /\ last' = [LastNone EXCEPT !.op = "domains", !.raised = out.raised,
                                       !.input = df, !.domains0 = domains_file]
    /\ UNCHANGED <<input_file, files, prevCat, adds, cu>>
    /\ UNCHANGED fan_vars

\* a run of the definition of lines 99-195.  Line 107 raises when a URL is
\* missing (`~` on the nan that str.contains gives for it, or .str on a column
\* without any text), before anything is written.
parse_and_categorize_links ==
    /\ UNCHANGED fan_vars
    /\ \E df \in {read_csv(input_file)} :
       \E domains \in {read_domains_from_file(domains_file)} :
           IF \E i \in DOMAIN df : df[i].paper = NaN
           THEN /\ last' = [LastNone EXCEPT !.op = "categorize", !.raised = TRUE,
                                            !.input = df, !.domains0 = domains_file]
                /\ UNCHANGED <<input_file, files, domains_file, prevCat, adds, cu>>
           ELSE \E frames \in {categorize_frames(df, url_patterns, domains)} :
                    /\ files' = save_buckets(frames.paths_and_dfs, files)
                    /\ input_file' = to_csv(frames.kept)
                    /\ last' = [op |-> "categorize", raised |-> FALSE, input |-> df,
                                domains0 |-> domains_file, files0 |-> files,
                                new |-> [f \in BucketNames |->
                                            new_df_of(frames.paths_and_dfs, f)],
                                repeat |-> /\ prevCat.valid
                                           /\ prevCat.input = df
                                           /\ prevCat.domains = domains]
                    /\ prevCat' = [valid |-> TRUE, input |-> df, domains |-> domains]
                    /\ UNCHANGED <<domains_file, adds, cu>>

Next ==
    \/ AddLink
    \/ parse_and_categorize_links_domains
    \/ parse_and_categorize_links

Spec == Init /\ [][Next]_vars

(***************************************************************************)
(* Properties of the pipeline.                                             *)
(***************************************************************************)
CategorizeDone == last.op = "categorize" /\ ~last.raised

Papers(rows) == {rows[i].paper : i \in DOMAIN rows}

\* C3: after a categorization pass over an input with a Twitter status row,
\* that row is in twitter_threads.csv and not in websites.csv.
C3_TwitterRowInThreadsBucket ==
    CategorizeDone =>
        \A i \in DOMAIN last.input :
            is_twitter_status_text(last.input[i].paper) =>
                /\ last.input[i].paper \in Papers(files["twitter_threads.csv"])
                /\ last.input[i].paper \notin Papers(files["websites.csv"])

\* C4: no two rows of a bucket file have the same 'paper' value, after any
\* sequence of categorization passes.
C4_NoDuplicateKeys ==
    \A f \in BucketNames :
        \A i, j \in DOMAIN files[f] :
            i # j => files[f][i].paper # files[f][j].paper

\* a merge has met a new row whose key is already in the file, with another
\* referrer
C4_Witness ==
    /\ CategorizeDone
    /\ \E f \in BucketNames :
         \E i \in DOMAIN last.files0[f], j \in DOMAIN last.new[f] :
            /\ last.files0[f][i].paper = last.new[f][j].paper
            /\ last.files0[f][i].referrer # format_cell(last.new[f][j].referrer)

\* C5: on a key collision the row of the file wins: every row of the file
\* before the pass is still there, at its place and with its fields, and the
\* file grows only by the new keys it did not hold, so a new row with a known
\* key does not change the row count.
C5_ExistingRowWins ==
    CategorizeDone =>
        \A f \in BucketNames :
            /\ Len(files[f]) =
                 Len(last.files0[f])
                   + Cardinality(Papers(last.new[f]) \ Papers(last.files0[f]))
            /\ \A i \in DOMAIN last.files0[f] : files[f][i] = last.files0[f][i]

\* every new row of a file collided with a row of the file, one of them with
\* other fields, and the file is as it was
C5_Witness ==
    /\ CategorizeDone
    /\ \E f \in BucketNames :
         /\ last.new[f] # <<>>
         /\ Papers(last.new[f]) \subseteq Papers(last.files0[f])
         /\ \E i \in DOMAIN last.files0[f], j \in DOMAIN last.new[f] :
               /\ last.files0[f][i].paper = last.new[f][j].paper
               /\ last.files0[f][i].referrer # format_cell(last.new[f][j].referrer)
         /\ files[f] = last.files0[f]

\* C6: a categorization pass that reads the same input rows (and the same
\* allow-list) as the pass before it leaves every bucket file as that pass
\* left it.
C6_SecondPassChangesNothing ==
    (CategorizeDone /\ last.repeat) => files = last.files0

\* a second pass over the same rows has merged rows into bucket files
C6_Witness ==
    /\ CategorizeDone
    /\ last.repeat
    /\ \E f \in BucketNames : last.new[f] # <<>> /\ Len(last.new[f]) > 1

IsPrefix(a, b) == Len(a) <= Len(b) /\ \A i \in DOMAIN a : b[i] = a[i]

is_unknown_research_url(url, domains) ==
    /\ url # NaN
    /\ StartsWith(urlparse_text(url).path, "/insights/research/")
    /\ ~SeqContains(research_websites, domain_of(urlparse_text(url)))
    /\ ~SeqContains(domains, domain_of(urlparse_text(url)))

\* C9: after a pass, the prefix scheme + netloc + first two path segments of
\* every input URL with a /insights/research/ path and an unknown domain is a
\* line of the allow-list file.
C9_ResearchPrefixAppended ==
    (last.op \in {"domains", "categorize"} /\ ~last.raised) =>
        \A i \in DOMAIN last.input :
            is_unknown_research_url(last.input[i].paper,
                                    read_domains_from_file(last.domains0)) =>
                SeqContains(domains_file, final_domain_of(urlparse_text(last.input[i].paper)))

\* the rules of the partition, as tests of one URL text
is_pdf_link(url) ==
    re_search_ignorecase(".pdf", url) /\ ~re_search_ignorecase("arxiv|ssrn|iacr", url)

is_research_site_link(url) ==
    \E k \in DOMAIN research_websites : re_search_ignorecase(research_websites[k], url)

is_youtube_link(url) ==
    StartsWith(url, "https://www.youtube.com/watch") \/ StartsWith(url, "https://youtu.be/")

\* the bucket files of the partition
PartitionBuckets ==
    {"papers.csv", "youtube_videos.csv"}
        \cup {site_file(research_websites[k]) : k \in DOMAIN research_websites}

\* the bucket file of the first rule a URL matches, in the order PDF link,
\* research site (in the order of the list, arxiv, ssrn and iacr first),
\* YouTube; "none" when no rule matches
first_rule_bucket(url) ==
    IF is_pdf_link(url) THEN "papers.csv"
    ELSE IF is_research_site_link(url)
         THEN site_file(research_websites[
                  CHOOSE k \in DOMAIN research_websites :
                      /\ re_search_ignorecase(research_websites[k], url)
                      /\ \A j \in 1..(k - 1) :
                            ~re_search_ignorecase(research_websites[j], url)])
    ELSE IF is_youtube_link(url) THEN "youtube_videos.csv"
    ELSE "none"

\* C11: a categorization pass writes every row that matches a rule of the
\* partition (PDF link, research site, YouTube) to the bucket of the first rule
\* it matches, and to no other bucket of the partition.
C11_FirstRuleBucketOnly ==
    CategorizeDone =>
        \A i \in DOMAIN last.input :
            first_rule_bucket(last.input[i].paper) # "none" =>
                /\ last.input[i] \in
                     {last.new[first_rule_bucket(last.input[i].paper)][j] :
                         j \in DOMAIN last.new[first_rule_bucket(last.input[i].paper)]}
                /\ \A f \in PartitionBuckets \ {first_rule_bucket(last.input[i].paper)} :
                      last.input[i].paper \notin Papers(last.new[f])

\* the row falls through: no rule of the partition matches it and
\* categorize_url does not give "article" for it
falls_through(url, domains) ==
    /\ first_rule_bucket(url) = "none"
    /\ categorize_url(url, url_patterns, domains) # "article"

\* C12: after a categorization pass, every row that falls through is in the
\* frame of websites.csv or in the rows written back to the input file, and
\* the rows written back are rows of the input that fall through.
C12_RemainderIsFallThrough ==
    CategorizeDone =>
        /\ \A i \in DOMAIN last.input :
              falls_through(last.input[i].paper, read_domains_from_file(last.domains0)) =>
                  \/ \E j \in DOMAIN last.new["websites.csv"] :
                        last.new["websites.csv"][j] = last.input[i]
                  \/ \E j \in DOMAIN input_file : input_file[j] = to_csv(last.input)[i]
        /\ \A j \in DOMAIN input_file :
              /\ \E i \in DOMAIN last.input : to_csv(last.input)[i] = input_file[j]
              /\ falls_through(parse_cell(input_file[j].paper),
                               read_domains_from_file(last.domains0))

\* a pass has read a row that falls through and a row that does not: the one
\* is written back, the other is not
C12_Witness ==
    /\ CategorizeDone
    /\ \E i, k \in DOMAIN last.input :
          /\ falls_through(last.input[i].paper, read_domains_from_file(last.domains0))
          /\ ~falls_through(last.input[k].paper, read_domains_from_file(last.domains0))
          /\ last.input[k].paper \notin Papers(input_file)
          /\ last.input[i].paper \in Papers(input_file)
          /\ last.input[i].paper \in Papers(files["websites.csv"])

writes_of(items) == Len(select(items, [k \in DOMAIN items |-> items[k][2] # <<>>]))

RECURSIVE save_first(_, _, _)
\* the loop of lines 170-192 up to an exception: the first n non-empty frames
\* are merged into their files, then line 179 or line 192 raises for the next
save_first(items, fs, n) ==
    IF items = <<>> \/ n = 0 THEN fs
    ELSE IF Head(items)[2] # <<>>
         THEN save_first(Tail(items),
                         [fs EXCEPT ![Head(items)[1]] =
                             merge_into(fs[Head(items)[1]], Head(items)[2])],
                         n - 1)
         ELSE save_first(Tail(items), fs, n)

\* an input file that is written whether or not the loop has raised
rewrite_input_always(file, kept, raised) == to_csv(kept)

\* line 195: reached only when the loop of lines 170-192 has not raised
rewrite_input(file, kept, raised) == IF raised THEN file ELSE to_csv(kept)

RECURSIVE RowSeqs(_)
\* the sequences of at most n input rows
RowSeqs(n) ==
    IF n = 0 THEN {<<>>}
    ELSE RowSeqs(n - 1) \cup
         {Append(rows, row) : rows \in {r \in RowSeqs(n - 1) : Len(r) = n - 1},
                              row \in InputRows}

\* to_parse.csv after the link gathering
StoreInit ==
    /\ input_file \in RowSeqs(MaxAdds) \ {<<>>}
    /\ files = EmptyFiles
    /\ domains_file \in InitialDomainFiles
    /\ last = LastNone
    /\ prevCat = PrevNone
    /\ adds = 0
    /\ cu = CuIdle
    /\ nl = Idle /\ pp = Idle /\ ar = Idle /\ dc = Idle
    /\ ft = Idle /\ rt = Idle /\ na = Idle

\* a run of the definition of lines 99-195 in which the loop of lines 170-192
\* raises after `done` bucket files are written
parse_and_categorize_links_raising ==
    /\ UNCHANGED fan_vars
    /\ \E df \in {read_csv(input_file)} :
       \E domains \in {read_domains_from_file(domains_file)} :
           /\ \A i \in DOMAIN df : df[i].paper # NaN
           /\ \E frames \in {categorize_frames(df, url_patterns, domains)} :
              \E done \in 0..(writes_of(frames.paths_and_dfs) - 1) :
                  /\ files' = save_first(frames.paths_and_dfs, files, done)
                  /\ input_file' = rewrite_input(input_file, frames.kept, TRUE)
                  /\ last' = [op |-> "categorize", raised |-> TRUE, input |-> df,
                              domains0 |-> domains_file, files0 |-> files,
                              new |-> [f \in BucketNames |->
                                          new_df_of(frames.paths_and_dfs, f)],
                              repeat |-> FALSE]
                  /\ UNCHANGED <<domains_file, prevCat, adds, cu>>

StoreNext ==
    \/ parse_and_categorize_links
    \/ parse_and_categorize_links_raising

SpecStore == StoreInit /\ [][StoreNext]_vars

\* a categorization pass has just run
pass_step == last'.op = "categorize"

\* C21: a pass that raises leaves the input file as it was; a pass changes
\* the input file only when every non-empty frame has been merged into its
\* bucket file, and every URL that is no longer in the input file is then in
\* a bucket file.
C21_InputRewrittenLast ==
    [][pass_step =>
          /\ last'.raised => input_file' = input_file
          /\ input_file' # input_file =>
                \A f \in BucketNames :
                    last'.new[f] # <<>> => files'[f] = merge_into(files[f], last'.new[f])
          /\ \A i \in DOMAIN last'.input :
                last'.input[i].paper \notin Papers(read_csv(input_file')) =>
                    \E f \in BucketNames : last'.input[i].paper \in Papers(files'[f])]_vars

\* a pass has raised at a bucket file after it had written another, with
\* consumed rows still in the input file
C21_Witness ==
    /\ last.op = "categorize" /\ last.raised
    /\ files # last.files0
    /\ \E f \in BucketNames : last.new[f] # <<>> /\ files[f] = last.files0[f]
    /\ input_file = to_csv(last.input)
    /\ \E i \in DOMAIN last.input : \E f \in BucketNames :
          last.input[i].paper \in Papers(files[f])

(***************************************************************************)
(* categorize_url as a pure function: the inputs are drawn by CatInit and  *)
(* the call is one step.                                                   *)
(***************************************************************************)
\* values of the 'paper' column handed to categorize_url by line 116
CatUrls == {
    TwitterStatusUrl,
    "https://twitter.com/a/",
    "https://b.co/twitter.com/status/1",
    "https://b.co/insights/research/x",
    "HTTPS://B.CO/insights/research/x",
    "https://www.galaxy.com/insights/research/x",
    "https://b.co/x",
    "not a url",
    "",
    NaN }

CatPatternTables == { <<>>, MainUrlPatterns }

CatDomainLists == {
    <<>>,
    <<"https://b.co/insights/research">>,
    <<"https://twitter.com">>,
    <<"https://c.io", "https://b.co">> }

CatInit ==
    /\ input_file = <<>>
    /\ files = EmptyFiles
    /\ domains_file = <<>>
    /\ last = LastNone
    /\ prevCat = PrevNone
    /\ adds = 0
    /\ nl = Idle /\ pp = Idle /\ ar = Idle /\ dc = Idle
    /\ ft = Idle /\ rt = Idle /\ na = Idle
    /\ \E u \in CatUrls, p \in CatPatternTables, d \in CatDomainLists :
           cu = [url |-> u, patterns |-> p, domains |-> d, result |-> "pending"]

CatCall ==
    /\ cu.result = "pending"
    /\ cu' = [cu EXCEPT !.result = categorize_url(cu.url, cu.patterns, cu.domains)]
    /\ UNCHANGED <<input_file, files, domains_file, last, prevCat, adds>>
    /\ UNCHANGED fan_vars

CatNext == CatCall

SpecCat == CatInit /\ [][CatNext]_vars

CatDone == cu.result \notin {"pending", "idle"}

\* C1: every URL that contains "twitter.com" and "/status/" is categorized as
\* the Twitter thread category, whatever the pattern table and the known
\* domains hold, also when a pattern or a known domain matches the URL too.
C1_TwitterStatusAlwaysThread ==
    (CatDone /\ cu.url # NaN /\ Contains(cu.url, "twitter.com") /\ Contains(cu.url, "/status/"))
        => cu.result = "Twitter thread"

\* a Twitter status URL that a pattern of the table matches as well has been
\* categorized
C1_Witness ==
    /\ CatDone
    /\ cu.url = TwitterStatusUrl
    /\ \E i \in DOMAIN cu.patterns : re_match(cu.patterns[i][2], cu.url)
    /\ cu.result = "Twitter thread"

\* C2: the rules are applied in the order Twitter status, pattern table,
\* known domains (case-insensitive prefix), website, the first match decides,
\* and the result is one of the three categories.
C2_RuleOrderFirstMatchWins ==
    (CatDone /\ cu.url # NaN) =>
        /\ cu.result \in {"Twitter thread", "article", "website"}
        /\ cu.result =
             IF Contains(cu.url, "twitter.com") /\ Contains(cu.url, "/status/")
             THEN "Twitter thread"
             ELSE IF \E i \in DOMAIN cu.patterns : MatchAt(cu.patterns[i][2], cu.url, 1, FALSE)
             THEN "article"
             ELSE IF \E i \in DOMAIN cu.domains : StartsWith(Lower(cu.url), Lower(cu.domains[i]))
             THEN "article"
             ELSE "website"

\* rule (c) has decided: no pattern matches, a known domain matches the URL
\* only up to the case of its letters
C2_Witness ==
    /\ CatDone
    /\ cu.url # NaN
    /\ cu.result = "article"
    /\ ~ \E i \in DOMAIN cu.patterns : MatchAt(cu.patterns[i][2], cu.url, 1, FALSE)
    /\ \E i \in DOMAIN cu.domains :
          StartsWith(Lower(cu.url), Lower(cu.domains[i])) /\ ~StartsWith(cu.url, cu.domains[i])

\* a value of the URL column that is no parsable URL: a missing value, or a
\* text without a scheme separator
is_malformed(v) == v = NaN \/ ~Contains(v, "://")

\* C10: on a value of the URL column that is not a parsable URL, an empty or
\* missing value included, categorize_url returns "website" and does not raise.
C10_MalformedIsWebsite ==
    (CatDone /\ is_malformed(cu.url)) => cu.result = "website"

\* categorize_url has been called on a missing value
C10_Witness == CatDone /\ cu.url = NaN

(***************************************************************************)
(* ensure_newline_in_csv (src/utils.py, lines 32-56) on the bytes of a     *)
(* file.  The file is opened as text ('a+', newline=''): what is read is   *)
(* decoded as UTF-8, and a write goes to the end of the file.  The bytes   *)
(* of the model are three one-byte characters and the two bytes of one     *)
(* two-byte character.                                                     *)
(***************************************************************************)
\* longest file, in bytes
MaxFileLen == 4

LeadByte == "C3"
ContinuationByte == "A9"

Bytes == {"a", "\r", "\n", LeadByte, ContinuationByte}

RECURSIVE utf8_valid(_)
\* whether the codec decodes the bytes: a lead byte is followed by its
\* continuation byte, and no continuation byte stands alone
utf8_valid(bytes) ==
    IF bytes = <<>> THEN TRUE
    ELSE IF Head(bytes) = LeadByte
         THEN /\ Len(bytes) >= 2
              /\ bytes[2] = ContinuationByte
              /\ utf8_valid(Tail(Tail(bytes)))
    ELSE IF Head(bytes) = ContinuationByte THEN FALSE
    ELSE utf8_valid(Tail(bytes))

RECURSIVE ByteSeqs(_)
ByteSeqs(n) ==
    IF n = 0 THEN {<<>>}
    ELSE ByteSeqs(n - 1) \cup {Append(b, c) : b \in {x \in ByteSeqs(n - 1) : Len(x) = n - 1},
                                             c \in Bytes}

\* the files the program meets: text files of at most MaxFileLen bytes
TextFiles == {b \in ByteSeqs(MaxFileLen) : utf8_valid(b)}

\* f.read(): the text of the file from a byte position on, or the
\* UnicodeDecodeError of the codec
read_from(file, pos) ==
    IF utf8_valid(SubSeq(file, pos + 1, Len(file)))
    THEN [raised |-> FALSE, bytes |-> SubSeq(file, pos + 1, Len(file))]
    ELSE [raised |-> TRUE, bytes |-> <<>>]

\* lines 39-55: what becomes of the file, and the number of error lines logged
ensure_newline_in_csv(file) ==
    IF read_from(file, 0).raised THEN [file |-> file, logged |-> 1]
    ELSE IF read_from(file, 0).bytes = <<>> THEN [file |-> file, logged |-> 0]
    ELSE IF Len(file) > 0
         THEN IF read_from(file, Len(file) - 1).raised
              THEN [file |-> file, logged |-> 1]
              ELSE IF read_from(file, Len(file) - 1).bytes # <<"\n">>
                   THEN [file |-> Append(file, "\n"), logged |-> 0]
                   ELSE [file |-> file, logged |-> 0]
    ELSE [file |-> file, logged |-> 0]

NlInit ==
    /\ input_file = <<>>
    /\ files = EmptyFiles
    /\ domains_file = <<>>
    /\ last = LastNone
    /\ prevCat = PrevNone
    /\ adds = 0
    /\ cu = CuIdle
    /\ pp = Idle /\ ar = Idle /\ dc = Idle
    /\ ft = Idle /\ rt = Idle /\ na = Idle
    /\ \E f \in TextFiles :
           nl = [phase |-> "file", file |-> f, before |-> f, calls |-> 0, logged |-> 0]

\* one call; a caller calls again before its next append
NlCall ==
    /\ nl.phase = "file"
    /\ nl.calls < 2
    /\ \E out \in {ensure_newline_in_csv(nl.file)} :
           nl' = [nl EXCEPT !.file = out.file, !.before = nl.file,
                            !.calls = nl.calls + 1, !.logged = nl.logged + out.logged]
    /\ UNCHANGED <<link_vars, cu, pp, ar, dc, call_vars>>

NlNext == NlCall

SpecNewline == NlInit /\ [][NlNext]_vars

\* C18: a call of ensure_newline_in_csv leaves an empty file and a file that
\* ends with a line break as they are, and appends exactly one line break to
\* any other file, keeping the bytes it had.
C18_EndsWithNewline ==
    (nl.phase = "file" /\ nl.calls >= 1) =>
        nl.file = IF nl.before = <<>> \/ nl.before[Len(nl.before)] = "\n"
                  THEN nl.before
                  ELSE Append(nl.before, "\n")

(***************************************************************************)
(* The detail fetchers of src/get_research_paper_details.py.  A fetcher    *)
(* asks the site for the page of a paper; what the site answers is the     *)
(* environment's choice (PageKinds).  The body of each fetcher raises the  *)
(* exception its statements raise on that answer, and its except clauses   *)
(* decide whether the exception is turned into None or leaves the fetcher. *)
(***************************************************************************)
Sites == {"arXiv", "SSRN", "IACR", "DL-ACM", "Nature", "Research Gate"}

\* ok: the page with all its elements; unreachable: the request fails;
\* no_title, no_author: the page lacks the element; bad_date: the date text
\* is not in the format the fetcher parses
PageKinds == {"ok", "unreachable", "no_title", "no_author", "bad_date"}

\* isinstance(exc, cls) for the classes of the model
IsInstance(exc, cls) ==
    \/ cls = "Exception"
    \/ exc = cls
    \/ exc = "ConnectionError" /\ cls = "RequestException"
    \/ exc = "UnboundLocalError" /\ cls = "NameError"

\* the exception the try body raises ("none": it reaches its return)
body_exception(site, page) ==
    CASE site = "arXiv" ->
            \* lines 72-82: the client raises on a failed request; next() on no
            \* result; authors and date come parsed from the API
            (CASE page = "unreachable" -> "ConnectionError"
               [] page = "no_title" -> "StopIteration"
               [] OTHER -> "none")
      [] site = "SSRN" ->
            \* lines 100-133: quickSoup gives None for a failed request and
            \* article.get_text() fails on it; find('h1') gives None;
            \* strptime on the date text
            (CASE page = "unreachable" -> "AttributeError"
               [] page = "no_title" -> "AttributeError"
               [] page = "bad_date" -> "ValueError"
               [] OTHER -> "none")
      [] site = "IACR" ->
            \* lines 142-163: select_one(...) gives None for a missing element;
            \* paper_authors is bound only when the bibtex names an author;
            \* the date text is returned as it is
            (CASE page = "unreachable" -> "ConnectionError"
               [] page = "no_title" -> "AttributeError"
               [] page = "no_author" -> "UnboundLocalError"
               [] OTHER -> "none")
      [] site = "DL-ACM" ->
            \* lines 174-206: the author list may be empty; strptime on the
            \* date text
            (CASE page = "unreachable" -> "ConnectionError"
               [] page = "no_title" -> "AttributeError"
               [] page = "bad_date" -> "ValueError"
               [] OTHER -> "none")
      [] site = "Nature" ->
            \* lines 217-257
            (CASE page = "unreachable" -> "ConnectionError"
               [] page = "no_title" -> "AttributeError"
               [] page = "no_author" -> "AttributeError"
               [] page = "bad_date" -> "ValueError"
               [] OTHER -> "none")
      [] OTHER ->
            \* Research Gate, lines 268-293: the wait for the title element
            \* times out; strptime on the date text
            (CASE page = "unreachable" -> "WebDriverException"
               [] page = "no_title" -> "TimeoutException"
               [] page = "bad_date" -> "ValueError"
               [] OTHER -> "none")

\* the classes of the except clauses of a fetcher
except_clauses(site) ==
    CASE site \in {"arXiv", "SSRN"} -> <<"Exception">>
      [] site \in {"IACR", "DL-ACM", "Nature"} -> <<"RequestException", "AttributeError">>
      [] OTHER -> <<"TimeoutException", "Exception">>

\* whether an except clause of the fetcher catches the exception
is_caught(site, exc) ==
    \E k \in DOMAIN except_clauses(site) : IsInstance(exc, except_clauses(site)[k])

\* the number of logging.error lines a fetcher writes when it catches (lines
\* 84 and 136; the others print)
fetcher_error_lines(site) == IF site \in {"arXiv", "SSRN"} THEN 1 ELSE 0

\* the title the page of a paper shows: the papers of the model are told apart
\* by the last character of the page address
title_of(url) == "Paper " \o SubSeq(url, Len(url), Len(url))

\* the topics field each fetcher sets
topics_of(site) ==
    CASE site = "arXiv" -> "cs.CR"
      [] site = "SSRN" -> "SSRN"
      [] site = "IACR" -> "IACR"
      [] site = "DL-ACM" -> "dl-acm"
      [] site = "Nature" -> "nature"
      [] OTHER -> "ResearchGate"

\* the dict a fetcher returns for an answer its body gets through
details_of(site, url, page) ==
    [title |-> title_of(url),
     authors |-> IF page = "no_author" THEN "" ELSE "A. Author",
     pdf_link |-> IF site = "arXiv" THEN url \o "v1" ELSE url,
     topics |-> topics_of(site),
     release_date |-> IF page = "bad_date" THEN "May 2023" ELSE "2023-05-01"]

NoDetails == [title |-> "", authors |-> "", pdf_link |-> "", topics |-> "",
              release_date |-> ""]

\* parsing_method(paper_page_url): the dict, None, or the exception that
\* leaves the fetcher, with the error lines it logs
parsing_method(site, url, page) ==
    IF body_exception(site, page) = "none"
    THEN [kind |-> "details", details |-> details_of(site, url, page),
          exc |-> "none", errors |-> 0]
    ELSE IF is_caught(site, body_exception(site, page))
    THEN [kind |-> "None", details |-> NoDetails, exc |-> "none",
          errors |-> fetcher_error_lines(site)]
    ELSE [kind |-> "raise", details |-> NoDetails,
          exc |-> body_exception(site, page), errors |-> 0]

(***************************************************************************)
(* download_and_save_paper (lines 357-388) and its worker                  *)
(* download_and_save_unique_paper (lines 304-354).  The workers are the    *)
(* processes of a ProcessPoolExecutor: their steps interleave.  The        *)
(* results of executor.map are never read, so an exception of a worker     *)
(* stays in its future.  paper_details.csv is the sequence of its rows     *)
(* (the header line is implied); csv.DictWriter ends every row with a line *)
(* break, so ensure_newline_in_csv (line 335) leaves the file as it is.    *)
(***************************************************************************)
\* number of runs of download_and_save_paper on the same paper_details.csv
MaxRuns == 2

RECURSIVE str_remove(_, _)
\* s.replace(old, '')
str_remove(s, old) ==
    IF Len(s) < Len(old) THEN s
    ELSE IF StartsWith(s, old) THEN str_remove(SubSeq(s, Len(old) + 1, Len(s)), old)
    ELSE SubSeq(s, 1, 1) \o str_remove(SubSeq(s, 2, Len(s)), old)

\* the rows of a bucket file such as arxiv_papers.csv (read by
\* read_csv_links_and_referrers): two links of one paper and another paper
PaperLinks == {
    <<"https://s.org/abs/1", "x">>,
    <<"https://s.org/abs/1.pdf", "y">>,
    <<"https://s.org/abs/2", "x">> }

\* paper_links_and_referrers of a run: rows of the bucket file, each once
PaperBatches ==
    {<<>>} \cup {<<a>> : a \in PaperLinks}
           \cup {<<p[1], p[2]>> : p \in {q \in PaperLinks \X PaperLinks : q[1] # q[2]}}

\* paper_details.csv before the first run: no file, or the row of an earlier
\* run
InitialPaperCsv == {
    [exists |-> FALSE, rows |-> <<>>],
    [exists |-> TRUE,
     rows |-> << [title |-> "Paper 2", authors |-> "A. Author",
                  pdf_link |-> "https://s.org/abs/2", topics |-> "SSRN",
                  release_date |-> "2023-05-01", referrer |-> "x"] >>] }

\* read_existing_papers (src/utils.py, lines 231-247)
read_existing_papers(csv) ==
    IF csv.exists THEN [k \in DOMAIN csv.rows |-> csv.rows[k].title] ELSE <<>>

\* paper_exists_in_list (src/utils.py, lines 256-267)
paper_exists_in_list(title, existing_papers) == SeqContains(existing_papers, title)

\* lines 364-369: the header is written, in mode 'w', when no title was read
write_header(csv, existing_papers) ==
    IF existing_papers = <<>> THEN [exists |-> TRUE, rows |-> <<>>] ELSE csv

\* lines 373-384: one task per link; a worker starts at line 321
task_of(link_and_referrer) ==
    [link |-> link_and_referrer[1], referrer |-> link_and_referrer[2],
     url |-> str_remove(link_and_referrer[1], ".pdf"),
     pc |-> "start", page |-> "none", stage |-> "none", exc |-> "none",
     details |-> NoDetails, errors |-> 0, infos |-> 0, wrote |-> FALSE,
     overlapped |-> FALSE]

PaperTerminal == {"failed", "skipped", "done", "raised"}

\* lines 321-332 for the answer of the site: the worker after the fetch
fetched(site, w, existing_papers, page, out) ==
    IF out.kind = "raise"
    THEN [w EXCEPT !.pc = "raised", !.page = page, !.stage = "fetcher", !.exc = out.exc]
    ELSE IF out.kind = "None"
    THEN [w EXCEPT !.pc = "failed", !.page = page, !.errors = out.errors + 1]
    ELSE IF paper_exists_in_list(out.details.title, existing_papers)
    THEN [w EXCEPT !.pc = "skipped", !.page = page, !.details = out.details,
                   !.infos = 1]
    ELSE [w EXCEPT !.pc = "append", !.page = page, !.details = out.details]

\* lines 337-343: the row written by csv.DictWriter
row_of(w) ==
    [title |-> w.details.title, authors |-> w.details.authors,
     pdf_link |-> w.details.pdf_link, topics |-> w.details.topics,
     release_date |-> w.details.release_date, referrer |-> w.referrer]

PpInit ==
    /\ input_file = <<>>
    /\ files = EmptyFiles
    /\ domains_file = <<>>
    /\ last = LastNone
    /\ prevCat = PrevNone
    /\ adds = 0
    /\ cu = CuIdle
    /\ nl = Idle /\ ar = Idle /\ dc = Idle
    /\ ft = Idle /\ rt = Idle /\ na = Idle
    /\ \E site \in Sites, csv \in InitialPaperCsv :
           pp = [phase |-> "ready", site |-> site, csv |-> csv, existing_papers |-> <<>>,
                 workers |-> <<>>, pdfs |-> {}, runs |-> 0]

\* lines 357-388 up to the submission of the tasks
download_and_save_paper ==
    /\ pp.phase = "ready"
    /\ pp.runs < MaxRuns
    /\ \E batch \in PaperBatches :
       \E existing_papers \in {read_existing_papers(pp.csv)} :
           pp' = [pp EXCEPT !.phase = "running",
                            !.existing_papers = existing_papers,
                            !.csv = write_header(pp.csv, existing_papers),
                            !.workers = [k \in DOMAIN batch |-> task_of(batch[k])],
                            !.runs = pp.runs + 1]
    /\ UNCHANGED <<link_vars, cu, nl, ar, dc, call_vars>>

\* a worker: lines 321-332
fetch_paper_details ==
    /\ pp.phase = "running"
    /\ \E i \in DOMAIN pp.workers :
          /\ pp.workers[i].pc = "start"
          /\ \E page \in PageKinds :
                pp' = [pp EXCEPT !.workers[i] =
                          fetched(pp.site, pp.workers[i], pp.existing_papers, page,
                                  parsing_method(pp.site, pp.workers[i].url, page))]
    /\ UNCHANGED <<link_vars, cu, nl, ar, dc, call_vars>>

\* a worker: lines 334-343, the row appended to the file
append_paper_row ==
    /\ pp.phase = "running"
    /\ \E i \in DOMAIN pp.workers :
          /\ pp.workers[i].pc = "append"
          /\ pp' = [pp EXCEPT !.csv.rows = Append(pp.csv.rows, row_of(pp.workers[i])),
                              !.workers[i].pc = "download",
                              !.workers[i].wrote = TRUE,
                              !.workers[i].overlapped =
                                  \E j \in DOMAIN pp.workers :
                                      j # i /\ pp.workers[j].pc \notin PaperTerminal]
    /\ UNCHANGED <<link_vars, cu, nl, ar, dc, call_vars>>

\* a worker: lines 345-354, the PDF requested and saved; raise_for_status
\* raises on an error status, requests.get on a failed request
download_paper_pdf ==
    /\ pp.phase = "running"
    /\ \E i \in DOMAIN pp.workers :
          /\ pp.workers[i].pc = "download"
          /\ \E response \in {"ok", "HTTPError", "ConnectionError"} :
                IF response = "ok"
                THEN pp' = [pp EXCEPT !.pdfs = pp.pdfs \cup {pp.workers[i].details.title},
                                      !.workers[i].pc = "done",
                                      !.workers[i].infos = 1]
                ELSE pp' = [pp EXCEPT !.workers[i].pc = "raised",
                                      !.workers[i].stage = "download",
                                      !.workers[i].exc = response]
    /\ UNCHANGED <<link_vars, cu, nl, ar, dc, call_vars>>

\* line 387: the with block ends when every worker has ended
papers_shutdown ==
    /\ pp.phase = "running"
    /\ \A i \in DOMAIN pp.workers : pp.workers[i].pc \in PaperTerminal
    /\ pp' = [pp EXCEPT !.phase = "ready", !.workers = <<>>, !.existing_papers = <<>>]
    /\ UNCHANGED <<link_vars, cu, nl, ar, dc, call_vars>>

PpNext ==
    \/ download_and_save_paper
    \/ fetch_paper_details
    \/ append_paper_row
    \/ download_paper_pdf
    \/ papers_shutdown

SpecPapers == PpInit /\ [][PpNext]_vars

(***************************************************************************)
(* fetch_article_contents_and_save_as_pdf (get_article_content.py, lines   *)
(* 888-969) with its worker process_row, fetch_content (lines 823-861) and *)
(* update_csv (lines 864-885).  The workers are the threads of a           *)
(* ThreadPoolExecutor; they share df, modified_indices and the output      *)
(* directory.  The results of executor.map are never read, so an exception *)
(* of a worker stays in its future.  articles_updated.csv is the sequence  *)
(* of its data rows with the columns article, title, release_date and      *)
(* authors (lines 899-902 add the last two, empty, when they are missing). *)
(***************************************************************************)
\* Python's None
None == "None"

\* bool(v) of a str or None
truthy(v) == v # None /\ v # ""

RECURSIVE str_replace(_, _, _)
\* s.replace(old, new)
str_replace(s, old, new) ==
    IF Len(s) < Len(old) THEN s
    ELSE IF StartsWith(s, old)
         THEN new \o str_replace(SubSeq(s, Len(old) + 1, Len(s)), old, new)
    ELSE SubSeq(s, 1, 1) \o str_replace(SubSeq(s, 2, Len(s)), old, new)

\* url_patterns of fetch_content (lines 828-850), in the order of the dict
ArticleFetchers == <<
    <<"ethresear.ch", "discourse">>,
    <<"collective.flashbots.net", "discourse">>,
    <<"lido.fi", "discourse">>,
    <<"research.anoma", "discourse">>,
    <<"frontier.tech", "frontier_tech">>,
    <<"medium.com", "medium">>,
    <<"mirror.xyz", "mirror">>,
    <<"paradigm.xyz", "paradigm">>,
    <<"hackmd.io", "hackmd">>,
    <<"jumpcrypto.com", "jump">>,
    <<"notion.site", "notion">>,
    <<"notes.ethereum.org", "hackmd">>,
    <<"dba.xyz", "dba">>,
    <<"propellerheads.xyz", "propellerheads">>,
    <<"a16z", "a16z">> >>

RECURSIVE fetcher_of(_, _)
\* lines 854-861: the function of the first pattern that is in the url
fetcher_of(url, patterns) ==
    IF patterns = <<>> THEN "none"
    ELSE IF Contains(url, Head(patterns)[1]) THEN Head(patterns)[2]
    ELSE fetcher_of(url, Tail(patterns))

\* lines 23-30: the dict has no 'title' key
empty_content == [has_title |-> FALSE, title |-> None, content |-> None,
                  release_date |-> None, authors |-> None]

\* the dict a fetcher returns for a page it fetched and parsed; the dicts of
\* fetch_discourse_content_from_url (lines 83-90) and
\* fetch_medium_content_from_url (lines 151-158) have no 'title' key
fetched_content(fetcher, url) ==
    [has_title |-> fetcher \notin {"discourse", "medium"},
     title |-> IF fetcher \in {"discourse", "medium"} THEN None
               ELSE "Title " \o SubSeq(url, Len(url), Len(url)),
     content |-> "text",
     release_date |-> "Date " \o SubSeq(url, Len(url), Len(url)),
     authors |-> "Author " \o SubSeq(url, Len(url), Len(url))]

\* fetch_content(row, output_dir): every fetcher catches its exceptions and
\* returns empty_content for them; answer is what the request gives
fetch_content(url, answer) ==
    IF fetcher_of(url, ArticleFetchers) = "none" \/ answer = "empty" THEN empty_content
    ELSE fetched_content(fetcher_of(url, ArticleFetchers), url)

\* rows of articles_updated.csv
ArticleRows == {
    [article |-> "https://medium.com/a", title |-> "N/A", release_date |-> "",
     authors |-> ""],
    [article |-> "https://x.io/b", title |-> "N/A", release_date |-> "", authors |-> ""],
    [article |-> "https://hackmd.io/c", title |-> "", release_date |-> "", authors |-> ""],
    [article |-> "https://ethresear.ch/d", title |-> "", release_date |-> "",
     authors |-> ""],
    [article |-> "https://a16z.com/e", title |-> "E/e", release_date |-> "2020-01-01",
     authors |-> "B. Writer"],
    [article |-> "https://x.io/f", title |-> "F", release_date |-> "NA",
     authors |-> "null"] }

\* the files of the model: one or two rows
ArticleFiles ==
    {<<r>> : r \in ArticleRows}
        \cup {<<p[1], p[2]>> : p \in {q \in ArticleRows \X ArticleRows : q[1] # q[2]}}

\* url_filters of run(): None, or the list of the __main__ block (line 1007)
UrlFilters == { [given |-> FALSE, list |-> <<>>], [given |-> TRUE, list |-> <<"a16z">>] }

RECURSIVE join(_, _)
\* sep.join(list)
join(sep, list) ==
    IF list = <<>> THEN ""
    ELSE IF Len(list) = 1 THEN list[1]
    ELSE list[1] \o sep \o join(sep, Tail(list))

\* the PDF files in the output directory before the run
InitialPdfs == { {}, {"N<slash>A.pdf"}, {"E<slash>e.pdf", "https:<slash><slash>hackmd.io<slash>c.pdf"} }

\* pd.read_csv of the file
read_articles(file) ==
    [k \in DOMAIN file |->
        [article |-> parse_cell(file[k].article), title |-> parse_cell(file[k].title),
         release_date |-> parse_cell(file[k].release_date),
         authors |-> parse_cell(file[k].authors)]]

\* full_df.to_csv(csv_filepath, index=False)
write_articles(df) ==
    [k \in DOMAIN df |->
        [article |-> format_cell(df[k].article), title |-> format_cell(df[k].title),
         release_date |-> format_cell(df[k].release_date),
         authors |-> format_cell(df[k].authors)]]

\* lines 905-909: the rows to process ('|'.join(url_filters) is a regular
\* expression; num_articles is None in run())
filter_articles(full_df, url_filters) ==
    IF ~url_filters.given THEN full_df
    ELSE select(full_df, [k \in DOMAIN full_df |->
                             re_search(join("|", url_filters.list), full_df[k].article)])

\* num_articles of fetch_article_contents_and_save_as_pdf: None (as run() calls
\* it) or a number of rows
NumArticles == { [given |-> FALSE, n |-> 0], [given |-> TRUE, n |-> 1] }

\* lines 908-909
head_articles(df, num_articles) ==
    IF ~num_articles.given THEN df
    ELSE SubSeq(df, 1, IF num_articles.n < Len(df) THEN num_articles.n ELSE Len(df))

\* df.loc[df[key] == value, field] = new: NaN equals nothing
set_where(df, key, value, field, new) ==
    [k \in DOMAIN df |->
        IF value # NaN /\ df[k][key] = value THEN [df[k] EXCEPT ![field] = new]
        ELSE df[k]]

\* line 928 and line 947
pdf_filename_of(article_title) == str_replace(article_title, "/", "<slash>") \o ".pdf"

\* line 966: one task per row of df, with the row as itertuples gives it
article_task(row, index) ==
    [index |-> index, row |-> row, pc |-> "start", fetched |-> FALSE,
     rendered |-> FALSE, content_info |-> empty_content, exc |-> "none",
     article_title |-> None, file_there |-> FALSE, logged |-> 0]

ArticleTerminal == {"done", "raised"}

\* the error and warning lines logged for a fetch without content: those of
\* fetch_discourse_content_from_url (lines 64, 94); the other fetchers print
empty_logged(url) == IF fetcher_of(url, ArticleFetchers) = "discourse" THEN 1 ELSE 0

\* `article_title is np.nan` (line 924) for a missing title: the nan of a
\* column that holds text is np.nan itself; a column without any text is a
\* float column, whose values itertuples gives as floats of their own
is_np_nan(full_df, title) ==
    IF title # NaN THEN {FALSE}
    ELSE IF \A k \in DOMAIN full_df : full_df[k].title = NaN THEN {TRUE, FALSE}
    ELSE {TRUE}

\* a test of line 931 that looks at the file only
checked_ignoring_overwrite(w, article_title, there, overwrite, answer) ==
    IF ~there
    THEN [w EXCEPT !.pc = "fetched", !.fetched = TRUE, !.article_title = article_title,
                   !.file_there = there,
                   !.content_info = fetch_content(w.row.article, answer),
                   !.logged = IF fetch_content(w.row.article, answer) = empty_content
                              THEN empty_logged(w.row.article) ELSE 0]
    ELSE [w EXCEPT !.pc = "done", !.article_title = article_title, !.file_there = there]

\* lines 920-932: the worker after the test of the PDF file and the fetch
checked(w, article_title, there, overwrite, answer) ==
    IF ~there \/ overwrite
    THEN [w EXCEPT !.pc = "fetched", !.fetched = TRUE, !.article_title = article_title,
                   !.file_there = there,
                   !.content_info = fetch_content(w.row.article, answer),
                   !.logged = IF fetch_content(w.row.article, answer) = empty_content
                              THEN empty_logged(w.row.article) ELSE 0]
    ELSE [w EXCEPT !.pc = "done", !.article_title = article_title, !.file_there = there]

\* line 942-944: the title is looked up in the dict
looks_up_title(w) == truthy(w.content_info.content) /\ w.article_title = w.row.article

\* lines 942-947: the title of the PDF
rendered_title(w) ==
    IF looks_up_title(w) /\ truthy(w.content_info.title) THEN w.content_info.title
    ELSE w.article_title

\* line 946
titled(w, df) ==
    IF looks_up_title(w) /\ truthy(w.content_info.title)
    THEN set_where(df, "article", w.row.article, "title", w.content_info.title)
    ELSE df

\* lines 956-957
dated(w, df) ==
    IF truthy(w.content_info.release_date)
    THEN set_where(df, "title", w.row.title, "release_date", w.content_info.release_date)
    ELSE df

\* lines 958-959
authored(w, df) ==
    IF truthy(w.content_info.authors)
    THEN set_where(df, "title", w.row.title, "authors", w.content_info.authors)
    ELSE df

RECURSIVE update_rows(_, _, _)
\* an update that copies row idx of df to row idx of full_df
update_rows_by_position(full_df, df, modified_indices) ==
    [k \in DOMAIN full_df |->
        IF \E j \in DOMAIN modified_indices : modified_indices[j] = k
        THEN df[k] ELSE full_df[k]]

\* lines 873-882: the rows of the modified indices copied into full_df, each to
\* the first row of full_df with its article
update_rows(full_df, df, modified_indices) ==
    IF modified_indices = <<>> THEN full_df
    ELSE update_rows(
            [k \in DOMAIN full_df |->
                IF /\ full_df[k].article = df[Head(modified_indices)].article
                   /\ \A j \in 1..(k - 1) :
                         full_df[j].article # df[Head(modified_indices)].article
                THEN df[Head(modified_indices)]
                ELSE full_df[k]],
            df, Tail(modified_indices))

ArInit ==
    /\ input_file = <<>>
    /\ files = EmptyFiles
    /\ domains_file = <<>>
    /\ last = LastNone
    /\ prevCat = PrevNone
    /\ adds = 0
    /\ cu = CuIdle
    /\ nl = Idle /\ pp = Idle /\ dc = Idle
    /\ ft = Idle /\ rt = Idle /\ na = Idle
    /\ \E file \in ArticleFiles, overwrite \in BOOLEAN, url_filters \in UrlFilters,
          num_articles \in NumArticles, pdfs \in InitialPdfs :
           ar = [phase |-> "ready", csv |-> file, csv0 |-> file, overwrite |-> overwrite,
                 url_filters |-> url_filters, num_articles |-> num_articles,
                 pdfs |-> pdfs, pdfs0 |-> pdfs,
                 full_df |-> <<>>, df |-> <<>>, modified_indices |-> <<>>,
                 workers |-> <<>>]

\* lines 897-966, up to the submission of the rows
fetch_article_contents_and_save_as_pdf ==
    /\ ar.phase = "ready"
    /\ \E full_df \in {read_articles(ar.csv)} :
       \E df \in {head_articles(filter_articles(full_df, ar.url_filters),
                                 ar.num_articles)} :
           ar' = [ar EXCEPT !.phase = "running", !.full_df = full_df, !.df = df,
                            !.workers = [k \in DOMAIN df |-> article_task(df[k], k)]]
    /\ UNCHANGED <<link_vars, cu, nl, pp, dc, call_vars>>

\* process_row, lines 920-932 (and line 962 when the row is skipped)
process_row_fetch ==
    /\ ar.phase = "running"
    /\ \E i \in DOMAIN ar.workers :
          /\ ar.workers[i].pc = "start"
          /\ \E same \in is_np_nan(ar.full_df, ar.workers[i].row.title) :
                IF ar.workers[i].row.title = NaN /\ ~same
                THEN ar' = [ar EXCEPT !.workers[i].pc = "raised",
                                      !.workers[i].exc = "AttributeError"]
                ELSE \E title \in {IF same THEN ar.workers[i].row.article
                                   ELSE ar.workers[i].row.title} :
                     \E answer \in {"content", "empty"} :
                     \E w \in {checked(ar.workers[i], title,
                                       pdf_filename_of(title) \in ar.pdfs,
                                       ar.overwrite, answer)} :
                         ar' = [ar EXCEPT !.workers[i] = w,
                                          !.modified_indices =
                                              IF w.pc = "done"
                                              THEN Append(ar.modified_indices, w.index)
                                              ELSE ar.modified_indices]
    /\ UNCHANGED <<link_vars, cu, nl, pp, dc, call_vars>>

\* process_row, lines 933-962: the PDF rendered, df updated and the index
\* appended; pdfkit raises OSError when wkhtmltopdf fails
process_row_save ==
    /\ ar.phase = "running"
    /\ \E i \in DOMAIN ar.workers :
       \E w \in {ar.workers[i]} :
          /\ w.pc = "fetched"
          /\ IF looks_up_title(w) /\ ~w.content_info.has_title
             THEN ar' = [ar EXCEPT !.workers[i].pc = "raised",
                                   !.workers[i].exc = "KeyError"]
             ELSE \E pdfkit \in (IF truthy(w.content_info.content)
                                 THEN {"ok", "OSError"} ELSE {"ok"}) :
                    IF pdfkit = "OSError"
                    THEN ar' = [ar EXCEPT !.workers[i].pc = "raised",
                                          !.workers[i].exc = "OSError",
                                          !.df = titled(w, ar.df)]
                    ELSE ar' = [ar EXCEPT
                                  !.workers[i].pc = "done",
                                  !.workers[i].rendered = truthy(w.content_info.content),
                                  !.pdfs = IF truthy(w.content_info.content)
                                           THEN ar.pdfs \cup
                                                  {pdf_filename_of(rendered_title(w))}
                                           ELSE ar.pdfs,
                                  !.df = authored(w, dated(w, titled(w, ar.df))),
                                  !.modified_indices = Append(ar.modified_indices, w.index)]
    /\ UNCHANGED <<link_vars, cu, nl, pp, dc, call_vars>>

\* lines 965-969: the executor ends when every worker has ended; update_csv
update_csv ==
    /\ ar.phase = "running"
    /\ \A i \in DOMAIN ar.workers : ar.workers[i].pc \in ArticleTerminal
    /\ \E full_df \in {update_rows(ar.full_df, ar.df, ar.modified_indices)} :
           ar' = [ar EXCEPT !.phase = "saved", !.full_df = full_df,
                            !.csv = write_articles(full_df)]
    /\ UNCHANGED <<link_vars, cu, nl, pp, dc, call_vars>>

ArNext ==
    \/ fetch_article_contents_and_save_as_pdf
    \/ process_row_fetch
    \/ process_row_save
    \/ update_csv

(***************************************************************************)
(* process_directory (get_docs.py, lines 34-68) with its worker            *)
(* process_file (lines 74-88) and convert_to_pdf_with_fallback (lines      *)
(* 91-116).  The files of a directory are the tasks of a                   *)
(* ThreadPoolExecutor; the subdirectories are processed one after the      *)
(* other when the files of the directory are done.                         *)
(***************************************************************************)
\* retry_count of convert_to_pdf_with_fallback
RetryCount == 3

\* the listing the GitHub API gives for an api_url
contents_of(api_url) ==
    CASE api_url = "api/content" ->
            << [type |-> "file", name |-> "a.md", url |-> "raw/a.md"],
               [type |-> "file", name |-> "b.mdx", url |-> "raw/b.mdx"],
               [type |-> "file", name |-> "logo.png", url |-> "raw/logo.png"],
               [type |-> "dir", name |-> "translations", url |-> "api/content/translations"],
               [type |-> "dir", name |-> "sub", url |-> "api/content/sub"] >>
      [] api_url = "api/content/sub" ->
            << [type |-> "file", name |-> "a.md", url |-> "raw/sub/a.md"] >>
      [] OTHER ->
            << [type |-> "file", name |-> "t.md", url |-> "raw/translations/t.md"] >>

\* exclude_dirs of process_repositories (line 161)
exclude_dirs == <<"translations">>

RootDir == [output_dir |-> "out/", api_url |-> "api/content"]

\* the PDF files below the output directory before the run
InitialDocPdfs == { {}, {"out/a.pdf"}, {"out/a.pdf", "out/b.pdfx", "out/sub/a.pdf"} }

\* s.endswith(suffix)
EndsWith(s, suffix) ==
    Len(suffix) <= Len(s) /\ SubSeq(s, Len(s) - Len(suffix) + 1, Len(s)) = suffix

\* os.path.join(a, b) for a relative b
path_join(a, b) == IF a = "" \/ EndsWith(a, "/") THEN a \o b ELSE a \o "/" \o b

\* line 76
output_pdf_path_of(output_dir, file_name) ==
    path_join(output_dir,
              str_replace(str_replace(file_name, ".md", ".pdf"), ".mdx", ".pdf"))

\* line 51
is_markdown_file(content) ==
    content.type = "file" /\ (EndsWith(content.name, ".md") \/ EndsWith(content.name, ".mdx"))

\* the entries of a listing that satisfy line 51
markdown_files(contents) ==
    select(contents, [j \in DOMAIN contents |-> is_markdown_file(contents[j])])

\* line 52: the task of one file; the worker starts at line 75
doc_task(output_dir, content) ==
    [name |-> content.name, path |-> output_pdf_path_of(output_dir, content.name),
     pc |-> "start", invoked |-> FALSE, converted |-> FALSE, file_there |-> FALSE,
     errors |-> 0, warnings |-> 0]

\* lines 50-53: one task per markdown file of the listing
doc_tasks(output_dir, contents) ==
    [k \in DOMAIN markdown_files(contents) |->
        doc_task(output_dir, markdown_files(contents)[k])]

\* the entries of a listing that satisfy line 63
directories(contents) ==
    select(contents, [j \in DOMAIN contents |-> contents[j].type = "dir"])

\* lines 62-68: the subdirectories of the listing, in its order
sub_directories(output_dir, contents) ==
    [k \in DOMAIN directories(contents) |->
        [output_dir |-> path_join(output_dir, directories(contents)[k].name),
         api_url |-> directories(contents)[k].url]]

\* no directory excluded
is_excluded_nowhere(output_dir) == FALSE

\* line 36
is_excluded(output_dir) ==
    \E k \in DOMAIN exclude_dirs : Contains(output_dir, exclude_dirs[k])

RECURSIVE convert_to_pdf_with_fallback(_, _, _)
\* lines 91-116, for a conversion that fails in its first `fails` rounds (pdfkit
\* and WeasyPrint both) and is then done by `by`: whether the PDF is written,
\* and the warning and error lines logged
convert_to_pdf_with_fallback(fails, by, retry_count) ==
    IF fails = 0
    THEN [written |-> TRUE, warnings |-> IF by = "weasyprint" THEN 1 ELSE 0, errors |-> 0]
    ELSE IF retry_count > 0
         THEN [convert_to_pdf_with_fallback(fails - 1, by, retry_count - 1)
                  EXCEPT !.warnings = @ + 2]
    ELSE [written |-> FALSE, warnings |-> 1, errors |-> 1]

\* lines 82-88 for a file that is fetched: the request fails (line 84 raises,
\* line 88 logs), or the text is converted
processed(w, download, conversion) ==
    IF download # "ok"
    THEN [w EXCEPT !.pc = "done", !.invoked = TRUE, !.errors = 1]
    ELSE [w EXCEPT !.pc = "done", !.invoked = TRUE, !.converted = conversion.written,
                   !.errors = conversion.errors, !.warnings = conversion.warnings]

DcInit ==
    /\ input_file = <<>>
    /\ files = EmptyFiles
    /\ domains_file = <<>>
    /\ last = LastNone
    /\ prevCat = PrevNone
    /\ adds = 0
    /\ cu = CuIdle
    /\ nl = Idle /\ pp = Idle /\ ar = Idle
    /\ ft = Idle /\ rt = Idle /\ na = Idle
    /\ \E overwrite \in BOOLEAN, pdfs \in InitialDocPdfs :
           dc = [phase |-> "ready", overwrite |-> overwrite, pdfs |-> pdfs,
                 pending |-> <<RootDir>>, dir |-> RootDir, subdirs |-> <<>>,
                 workers |-> <<>>, errors |-> 0]

\* lines 34-53 for the next directory: skipped when excluded; the listing is
\* fetched by get_content_list (lines 20-32), which gives [] for an HTTP error
\* and lets any other failure of the request pass
process_directory ==
    /\ dc.phase = "ready"
    /\ dc.pending # <<>>
    /\ \E d \in {Head(dc.pending)} :
          IF is_excluded(d.output_dir)
          THEN dc' = [dc EXCEPT !.pending = Tail(dc.pending), !.dir = d]
          ELSE \E answer \in {"ok", "HTTPError", "ConnectionError"} :
                 CASE answer = "ok" ->
                        dc' = [dc EXCEPT !.phase = "files", !.dir = d,
                                  !.pending = Tail(dc.pending),
                                  !.workers = doc_tasks(d.output_dir, contents_of(d.api_url)),
                                  !.subdirs = sub_directories(d.output_dir,
                                                              contents_of(d.api_url))]
                   [] answer = "HTTPError" ->
                        dc' = [dc EXCEPT !.pending = Tail(dc.pending), !.dir = d,
                                         !.errors = 2]
                   [] OTHER ->
                        dc' = [dc EXCEPT !.phase = "aborted", !.dir = d, !.pending = <<>>]
    /\ UNCHANGED <<link_vars, cu, nl, pp, ar, call_vars>>

\* process_file, lines 74-88
process_file ==
    /\ dc.phase = "files"
    /\ \E i \in DOMAIN dc.workers :
       \E w \in {dc.workers[i]} :
          /\ w.pc = "start"
          /\ IF ~dc.overwrite /\ w.path \in dc.pdfs
             THEN dc' = [dc EXCEPT !.workers[i].pc = "done",
                                   !.workers[i].file_there = TRUE]
             ELSE \E download \in {"ok", "ConnectionError"},
                     fails \in 0..(RetryCount + 1), by \in {"pdfkit", "weasyprint"} :
                  \E w2 \in {processed([w EXCEPT !.file_there = w.path \in dc.pdfs], download,
                                 convert_to_pdf_with_fallback(fails, by, RetryCount))} :
                      dc' = [dc EXCEPT !.workers[i] = w2,
                                       !.pdfs = IF w2.converted THEN dc.pdfs \cup {w.path}
                                                ELSE dc.pdfs]
    /\ UNCHANGED <<link_vars, cu, nl, pp, ar, call_vars>>

\* lines 55-68: every future has ended; the subdirectories come next, before
\* the directories that were pending
directory_files_done ==
    /\ dc.phase = "files"
    /\ \A i \in DOMAIN dc.workers : dc.workers[i].pc = "done"
    /\ dc' = [dc EXCEPT !.phase = "ready", !.workers = <<>>, !.subdirs = <<>>,
                        !.pending = dc.subdirs \o dc.pending]
    /\ UNCHANGED <<link_vars, cu, nl, pp, ar, call_vars>>

DcNext ==
    \/ process_directory
    \/ process_file
    \/ directory_files_done

(***************************************************************************)
(* The two fan-outs that render PDF files, each from its own start.        *)
(***************************************************************************)
FanoutInit == ArInit \/ DcInit

FanoutNext == ArNext \/ DcNext

SpecFanout == FanoutInit /\ [][FanoutNext]_vars


(***************************************************************************)
(* fetch_article_titles (src/populate_csv_files/pretty_print_articles.py): *)
(* the titles of the rows of articles.csv, fetched by the threads of an     *)
(* executor and written, with the rows, to articles_updated.csv.            *)
(***************************************************************************)
\* rows of articles.csv
TitleRows == {
    [article |-> "https://ethresear.ch/d", referrer |-> "x"],
    [article |-> "https://hackmd.io/c", referrer |-> "NA"],
    [article |-> "https://x.io/b", referrer |-> "y"],
    [article |-> "", referrer |-> "z"] }

\* articles.csv: one or two rows
TitleInputs ==
    {<<r>> : r \in TitleRows}
        \cup {<<p[1], p[2]>> : p \in {q \in TitleRows \X TitleRows : q[1] # q[2]}}

\* articles_updated.csv before the run: no file, or the rows of an earlier run
TitleOutputs == {
    [exists |-> FALSE, rows |-> <<>>],
    [exists |-> TRUE,
     rows |-> << [title |-> "Old c", article |-> "https://hackmd.io/c", referrer |-> "NA"],
                 [title |-> "", article |-> "https://ethresear.ch/d", referrer |-> "x"] >>],
    [exists |-> TRUE,
     rows |-> << [title |-> "Old d", article |-> "https://ethresear.ch/d",
                  referrer |-> "x"] >>] }

\* pd.read_csv of articles.csv (line 239)
read_csv_articles(file) ==
    [i \in DOMAIN file |->
        [article |-> parse_cell(file[i].article),
         referrer |-> parse_cell(file[i].referrer)]]

\* lines 242-247: dict(zip(output_df['article'], output_df['title'])), as the
\* set of its items; the articles of the file are distinct
url_to_title_of(output) ==
    {<<parse_cell(output.rows[k].article), parse_cell(output.rows[k].title)>> :
        k \in DOMAIN output.rows}

\* line 188: the title is in the dict and is not null; a NaN is not found as
\* a key, being equal to no key
has_title(url, url_to_title) ==
    url # NaN /\ \E kv \in url_to_title : kv[1] = url /\ kv[2] # NaN

\* the fetcher that lines 194-223 choose; `'ethresear.ch' in url` is a
\* TypeError when the cell of the URL is empty and url is the float NaN
title_fetcher_of(url) ==
    IF url = NaN THEN "TypeError"
    ELSE IF Contains(url, "ethresear.ch") \/ Contains(url, "collective.flashbots.net")
          \/ Contains(url, "lido.fi") THEN "from_url"
    ELSE IF Contains(url, "hackmd.io") THEN "hackmd"
    ELSE "none"

\* what a fetcher gives for the answer of the site: fetch_title_from_url
\* (lines 12-32) and fetch_hackmd_titles (lines 124-148) return the title, and
\* None for every exception
title_answer(url, answer) ==
    IF title_fetcher_of(url) = "TypeError" THEN [kind |-> "raise", title |-> None]
    ELSE IF title_fetcher_of(url) = "none" THEN [kind |-> "return", title |-> None]
    ELSE IF answer = "ok"
    THEN [kind |-> "return", title |-> "Title " \o SubSeq(url, Len(url), Len(url))]
    ELSE [kind |-> "return", title |-> None]

\* fetch_title (lines 184-223)
fetch_title(url, url_to_title, answer) ==
    IF has_title(url, url_to_title)
    THEN [kind |-> "return", requested |-> FALSE,
          title |-> (CHOOSE kv \in url_to_title : kv[1] = url /\ kv[2] # NaN)[2]]
    ELSE [kind |-> title_answer(url, answer).kind,
          requested |-> title_fetcher_of(url) \notin {"none", "TypeError"},
          title |-> title_answer(url, answer).title]

\* titles taken in the order in which the threads have ended
map_results_as_completed(workers, completed) ==
    [i \in DOMAIN workers |-> workers[completed[i]].title]

\* line 254: list(executor.map(...)) gives the results in the order of the rows
map_results(workers, completed) == [i \in DOMAIN workers |-> workers[i].title]

\* lines 257-261: the title column set and the three columns written; None is
\* written as an empty cell
write_titles(df, titles) ==
    [i \in DOMAIN df |->
        [title |-> IF titles[i] = None THEN "" ELSE format_cell(titles[i]),
         article |-> format_cell(df[i].article),
         referrer |-> format_cell(df[i].referrer)]]

FtInit ==
    /\ input_file = <<>>
    /\ files = EmptyFiles
    /\ domains_file = <<>>
    /\ last = LastNone
    /\ prevCat = PrevNone
    /\ adds = 0
    /\ cu = CuIdle
    /\ nl = Idle /\ pp = Idle /\ ar = Idle /\ dc = Idle
    /\ rt = Idle /\ na = Idle
    /\ \E input \in TitleInputs, output \in TitleOutputs :
           ft = [phase |-> "ready", input |-> input, output |-> output,
                 output0 |-> output, df |-> <<>>, url_to_title |-> {},
                 workers |-> <<>>, completed |-> <<>>]

\* lines 239-254, up to the submission of the rows
fetch_article_titles ==
    /\ ft.phase = "ready"
    /\ \E df \in {read_csv_articles(ft.input)} :
           ft' = [ft EXCEPT !.phase = "running", !.df = df,
                            !.url_to_title = url_to_title_of(ft.output),
                            !.workers = [i \in DOMAIN df |->
                                            [url |-> df[i].article, pc |-> "start",
                                             kind |-> "none", requested |-> FALSE,
                                             title |-> None]]]
    /\ UNCHANGED <<link_vars, cu, nl, pp, ar, dc, rt, na>>

\* a thread of the executor runs fetch_title for its row
fetch_title_call ==
    /\ ft.phase = "running"
    /\ \E i \in DOMAIN ft.workers :
       \E answer \in {"ok", "failed"} :
       \E out \in {fetch_title(ft.workers[i].url, ft.url_to_title, answer)} :
          /\ ft.workers[i].pc = "start"
          /\ ft' = [ft EXCEPT !.workers[i] =
                                  [url |-> ft.workers[i].url, pc |-> "ended",
                                   kind |-> out.kind, requested |-> out.requested,
                                   title |-> out.title],
                              !.completed = Append(ft.completed, i)]
    /\ UNCHANGED <<link_vars, cu, nl, pp, ar, dc, rt, na>>

\* lines 254-261: the executor has ended; list() raises the exception of a
\* thread, and then nothing is written
titles_saved ==
    /\ ft.phase = "running"
    /\ \A i \in DOMAIN ft.workers : ft.workers[i].pc = "ended"
    /\ IF \E i \in DOMAIN ft.workers : ft.workers[i].kind = "raise"
       THEN ft' = [ft EXCEPT !.phase = "raised"]
       ELSE ft' = [ft EXCEPT !.phase = "written",
                             !.output = [exists |-> TRUE,
                                         rows |-> write_titles(ft.df,
                                                     map_results(ft.workers,
                                                                 ft.completed))]]
    /\ UNCHANGED <<link_vars, cu, nl, pp, ar, dc, rt, na>>

FtNext ==
    \/ fetch_article_titles
    \/ fetch_title_call
    \/ titles_saved

SpecTitles == FtInit /\ [][FtNext]_vars

\* C26: after a run that has written the file, the file has the rows of the
\* input in their order, row i with the title that its own thread returned,
\* whatever the order in which the threads ended; a URL that had a title in
\* the file keeps it and is not requested.
C26_TitleOfOwnRow ==
    ft.phase = "written" =>
        /\ Len(ft.output.rows) = Len(ft.input)
        /\ \A i \in DOMAIN ft.input :
              /\ parse_cell(ft.output.rows[i].article) = parse_cell(ft.input[i].article)
              /\ parse_cell(ft.output.rows[i].referrer) = parse_cell(ft.input[i].referrer)
              /\ ft.workers[i].url = parse_cell(ft.input[i].article)
              /\ ft.output.rows[i].title =
                    (IF ft.workers[i].title = None THEN "" ELSE ft.workers[i].title)
              /\ \A k \in DOMAIN ft.output0.rows :
                    (/\ ft.output0.rows[k].article = ft.input[i].article
                     /\ parse_cell(ft.output0.rows[k].title) # NaN) =>
                        /\ ft.output.rows[i].title = ft.output0.rows[k].title
                        /\ ~ft.workers[i].requested
              /\ (ft.workers[i].requested /\ ft.workers[i].title # None) =>
                    ft.workers[i].title =
                        "Title " \o SubSeq(ft.input[i].article, Len(ft.input[i].article),
                                           Len(ft.input[i].article))

\* the thread of the second row ended first; one title was kept, the other
\* fetched
C26_Witness ==
    /\ ft.phase = "written"
    /\ ft.completed = <<2, 1>>
    /\ \E i, j \in DOMAIN ft.workers :
          /\ ~ft.workers[i].requested /\ ft.workers[i].title \notin {None, NaN}
          /\ ft.workers[j].requested /\ ft.workers[j].title # None

(***************************************************************************)
(* The retry loops of get_docs.py, one request or conversion per step:     *)
(* get_content_list (lines 20-32) and convert_to_pdf_with_fallback (lines  *)
(* 91-116).  Both recurse with retry_count - 1 and delay * 2.              *)
(***************************************************************************)
\* delay as the callers leave it (5) and another value
Delays == {5, 1}

\* what a request to the GitHub API gives: the listing, a 403 whose text has
\* 'rate limit exceeded', another error status, or an exception that is not
\* an HTTPError (no connection, a body that is not JSON)
ApiAnswers == {"ok", "rate_limited", "http_error", "other_exception"}

\* a retry for every error status
retries_any_http_error(answer, retry_count) ==
    answer \in {"rate_limited", "http_error"} /\ retry_count > 0

\* lines 26-27
retries(answer, retry_count) == answer = "rate_limited" /\ retry_count > 0

\* a retry that is allowed once more
retry_allowed_at_zero(retry_count) == retry_count >= 0

\* line 110
retry_allowed(retry_count) == retry_count > 0

RtInit ==
    /\ input_file = <<>>
    /\ files = EmptyFiles
    /\ domains_file = <<>>
    /\ last = LastNone
    /\ prevCat = PrevNone
    /\ adds = 0
    /\ cu = CuIdle
    /\ nl = Idle /\ pp = Idle /\ ar = Idle /\ dc = Idle
    /\ ft = Idle /\ na = Idle
    /\ \E fn \in {"get_content_list", "convert_to_pdf_with_fallback"},
          retry_count \in 0..RetryCount, delay \in Delays :
           rt = [fn |-> fn, phase |-> "running", retry_count0 |-> retry_count,
                 delay0 |-> delay, retry_count |-> retry_count, delay |-> delay,
                 tried |-> <<>>, answers |-> <<>>, slept |-> <<>>, result |-> "none",
                 warnings |-> 0, errors |-> 0]

\* get_content_list, lines 21-32: one request and what follows it
get_content_list ==
    /\ rt.phase = "running" /\ rt.fn = "get_content_list"
    /\ \E answer \in ApiAnswers :
          rt' = IF answer = "ok"
                THEN [rt EXCEPT !.phase = "returned", !.result = "listing",
                                !.tried = Append(rt.tried, "requests.get"),
                                !.answers = Append(rt.answers, answer)]
                ELSE IF answer = "other_exception"
                THEN [rt EXCEPT !.phase = "raised", !.result = "raise",
                                !.tried = Append(rt.tried, "requests.get"),
                                !.answers = Append(rt.answers, answer)]
                ELSE IF retries(answer, rt.retry_count)
                THEN [rt EXCEPT !.retry_count = rt.retry_count - 1,
                                !.delay = rt.delay * 2,
                                !.slept = Append(rt.slept, rt.delay),
                                !.warnings = rt.warnings + 1,
                                !.tried = Append(rt.tried, "requests.get"),
                                !.answers = Append(rt.answers, answer)]
                ELSE [rt EXCEPT !.phase = "returned", !.result = "[]",
                                !.errors = rt.errors + 1,
                                !.tried = Append(rt.tried, "requests.get"),
                                !.answers = Append(rt.answers, answer)]
    /\ UNCHANGED <<link_vars, cu, nl, pp, ar, dc, ft, na>>

\* the converter that runs next: pdfkit at the start of an attempt (lines
\* 93-101), WeasyPrint after pdfkit has failed (lines 106-108)
next_converter ==
    IF rt.tried = <<>> \/ rt.tried[Len(rt.tried)] = "WeasyPrint" THEN "pdfkit"
    ELSE "WeasyPrint"

\* convert_to_pdf_with_fallback, lines 93-116: one converter runs; an exception
\* in the first try block (pdfkit, or prepare_html_content before it) is
\* caught at line 102, one in the second at line 109
convert_to_pdf ==
    /\ rt.phase = "running" /\ rt.fn = "convert_to_pdf_with_fallback"
    /\ \E answer \in {"ok", "exception"} :
          rt' = IF answer = "ok"
                THEN [rt EXCEPT !.phase = "returned", !.result = "True",
                                !.tried = Append(rt.tried, next_converter),
                                !.answers = Append(rt.answers, answer)]
                ELSE IF next_converter = "pdfkit"
                THEN [rt EXCEPT !.warnings = rt.warnings + 1,
                                !.tried = Append(rt.tried, next_converter),
                                !.answers = Append(rt.answers, answer)]
                ELSE IF retry_allowed(rt.retry_count)
                THEN [rt EXCEPT !.retry_count = rt.retry_count - 1,
                                !.delay = rt.delay * 2,
                                !.slept = Append(rt.slept, rt.delay),
                                !.warnings = rt.warnings + 1,
                                !.tried = Append(rt.tried, next_converter),
                                !.answers = Append(rt.answers, answer)]
                ELSE [rt EXCEPT !.phase = "returned", !.result = "None",
                                !.errors = rt.errors + 1,
                                !.tried = Append(rt.tried, next_converter),
                                !.answers = Append(rt.answers, answer)]
    /\ UNCHANGED <<link_vars, cu, nl, pp, ar, dc, ft, na>>

RtNext ==
    \/ get_content_list
    \/ convert_to_pdf

SpecRetry == RtInit /\ [][RtNext]_vars

RECURSIVE doubling(_, _)
\* n delays from `delay` on, each twice the one before
doubling(delay, n) == IF n = 0 THEN <<>> ELSE <<delay>> \o doubling(delay * 2, n - 1)

\* the number of answers of a kind
count_of(answers, kind) == Cardinality({k \in DOMAIN answers : answers[k] = kind})

\* C27: get_content_list makes at most retry_count + 1 requests and sleeps
\* delay, 2 * delay, ... between them; only a rate-limited answer is retried;
\* it returns the listing at the first success, and [] for another error
\* status or for a rate-limited answer when no retry is left.
C27_BoundedRetries ==
    rt.fn = "get_content_list" =>
        /\ Len(rt.tried) <= rt.retry_count0 + 1
        /\ rt.slept = doubling(rt.delay0, Len(rt.slept))
        /\ Len(rt.slept) = rt.retry_count0 - rt.retry_count
        /\ \A k \in 1..(Len(rt.answers) - 1) : rt.answers[k] = "rate_limited"
        /\ rt.phase = "running" => Len(rt.slept) = Len(rt.answers)
        /\ rt.phase = "returned" =>
              /\ Len(rt.answers) = Len(rt.slept) + 1
              /\ rt.result = "listing" <=> rt.answers[Len(rt.answers)] = "ok"
              /\ rt.result = "[]" <=>
                    \/ rt.answers[Len(rt.answers)] = "http_error"
                    \/ /\ rt.answers[Len(rt.answers)] = "rate_limited"
                       /\ Len(rt.answers) = rt.retry_count0 + 1
        /\ (rt.retry_count0 = RetryCount /\ rt.delay0 = 5) =>
              /\ Len(rt.tried) <= 4
              /\ \E n \in 0..3 : rt.slept = SubSeq(<<5, 10, 20>>, 1, n)

\* the default call has given [] after four rate-limited answers
C27_Witness ==
    /\ rt.fn = "get_content_list" /\ rt.phase = "returned"
    /\ rt.retry_count0 = RetryCount /\ rt.delay0 = 5
    /\ rt.answers = <<"rate_limited", "rate_limited", "rate_limited", "rate_limited">>
    /\ rt.slept = <<5, 10, 20>>
    /\ rt.result = "[]"

\* C28: convert_to_pdf_with_fallback runs pdfkit first and WeasyPrint only
\* after a failure of pdfkit in the same attempt; it returns True at the
\* first success; it makes at most retry_count + 1 attempts, with a delay
\* that doubles; it returns None when the last attempt has failed; it does
\* not raise.
C28_FallbackThenRetry ==
    rt.fn = "convert_to_pdf_with_fallback" =>
        /\ \A k \in DOMAIN rt.tried :
              rt.tried[k] = (IF k % 2 = 1 THEN "pdfkit" ELSE "WeasyPrint")
        /\ \A k \in 1..(Len(rt.answers) - 1) : rt.answers[k] = "exception"
        /\ Len(rt.tried) <= 2 * (rt.retry_count0 + 1)
        /\ rt.slept = doubling(rt.delay0, Len(rt.slept))
        /\ Len(rt.slept) = rt.retry_count0 - rt.retry_count
        /\ rt.phase # "raised"
        /\ rt.phase = "returned" =>
              /\ rt.result = "True" <=> rt.answers[Len(rt.answers)] = "ok"
              /\ rt.result = "None" <=>
                    /\ Len(rt.answers) = 2 * (rt.retry_count0 + 1)
                    /\ \A k \in DOMAIN rt.answers : rt.answers[k] = "exception"
        /\ (rt.retry_count0 = RetryCount /\ rt.delay0 = 5) =>
              \E n \in 0..3 : rt.slept = SubSeq(<<5, 10, 20>>, 1, n)

\* the default call has given None after four attempts of both converters
C28_Witness ==
    /\ rt.fn = "convert_to_pdf_with_fallback" /\ rt.phase = "returned"
    /\ rt.retry_count0 = RetryCount /\ rt.delay0 = 5
    /\ Len(rt.tried) = 8
    /\ rt.slept = <<5, 10, 20>>
    /\ rt.result = "None"

(***************************************************************************)
(* Properties of the paper fan-out.                                        *)
(***************************************************************************)
PaperWorkers == IF pp.phase = "running" THEN DOMAIN pp.workers ELSE {}

\* C15: the workers share nothing but the final write of the CSV file, which
\* happens after all of them have ended: no worker writes paper_details.csv
\* while another worker is still running.
C15_CsvWrittenAfterWorkers ==
    \A i \in PaperWorkers : ~pp.workers[i].overlapped

\* C16: a worker whose fetcher meets an unreachable URL gets the failure
\* sentinel, writes no row, and the fetcher and the runner together log exactly
\* one error line for the URL.
C16_UnreachableOneErrorLine ==
    \A i \in PaperWorkers :
        pp.workers[i].page = "unreachable" =>
            /\ pp.workers[i].pc = "failed"
            /\ ~pp.workers[i].wrote
            /\ pp.workers[i].errors = 1

\* C17: no exception leaves a detail fetcher on a failed request, a missing
\* page element (title, author) or a malformed date.
C17_NoExceptionLeavesFetcher ==
    \A i \in PaperWorkers :
        pp.workers[i].page \in {"unreachable", "no_title", "no_author", "bad_date"} =>
            ~(pp.workers[i].pc = "raised" /\ pp.workers[i].stage = "fetcher")

\* C19: paper_details.csv holds at most one row per paper title, after any
\* sequence of runs.
C19_OneRowPerPaper ==
    pp.phase # "idle" =>
        \A i, j \in DOMAIN pp.csv.rows :
            i # j => pp.csv.rows[i].title # pp.csv.rows[j].title

(***************************************************************************)
(* Properties of the fan-outs.                                             *)
(***************************************************************************)
ArticleWorkers == IF ar.phase \in {"running", "saved"} THEN DOMAIN ar.workers ELSE {}

DocWorkers == IF dc.phase = "files" THEN DOMAIN dc.workers ELSE {}

\* the enrichment of the row has failed: the fetch gave the empty dict
enrichment_failed(w) ==
    w.fetched /\ w.pc \in {"fetched", "done"} /\ w.content_info = empty_content

\* C13: in every fan-out a row whose worker raises or whose fetcher gives the
\* sentinel is logged, and the run does not end before the workers of the
\* other rows have ended.
C13_FailedRowLoggedBatchGoesOn ==
    /\ \A i \in PaperWorkers :
          pp.workers[i].pc \in {"failed", "raised"} => pp.workers[i].errors >= 1
    /\ \A i \in ArticleWorkers :
          /\ (ar.workers[i].pc = "raised" \/ enrichment_failed(ar.workers[i])) =>
                 ar.workers[i].logged >= 1
          /\ ar.phase = "saved" => ar.workers[i].pc \in ArticleTerminal
    /\ \A i \in DocWorkers :
          (dc.workers[i].pc = "done" /\ dc.workers[i].invoked /\ ~dc.workers[i].converted) =>
              dc.workers[i].errors >= 1
    /\ dc.phase = "ready" => dc.workers = <<>>

\* the worker has passed the test of line 931
passed_test(w) == w.pc \in {"fetched", "done"} \/ w.fetched

row_with(file, article) ==
    {file[k] : k \in {j \in DOMAIN file : file[j].article = article}}

outside_subset(k) ==
    \A j \in DOMAIN ar.df : ar.df[j].article # parse_cell(ar.csv0[k].article)

\* C23: after the run the file has as many rows as before, with the same
\* article URLs in the same order, and the rows that url_filters and
\* num_articles leave out have the field values they had.
C23_RowSetPreserved ==
    ar.phase = "saved" =>
        /\ Len(ar.csv) = Len(ar.csv0)
        /\ \A k \in DOMAIN ar.csv0 :
              /\ ar.csv[k].article = ar.csv0[k].article
              /\ outside_subset(k) => read_articles(ar.csv)[k] = read_articles(ar.csv0)[k]

\* a run over a subset has changed a row of the subset and saved the file
C23_Witness ==
    /\ ar.phase = "saved"
    /\ Len(ar.csv0) = 2
    /\ \E k \in DOMAIN ar.csv0 : outside_subset(k)
    /\ \E k \in DOMAIN ar.csv0 :
          ~outside_subset(k) /\ read_articles(ar.csv)[k] # read_articles(ar.csv0)[k]

\* the value fetched for the article of row k of the file, if any
fetched_for(k, field) ==
    {ar.workers[i].content_info[field] :
        i \in {j \in ArticleWorkers :
                  /\ ar.workers[j].fetched
                  /\ ar.workers[j].row.article = parse_cell(ar.csv0[k].article)}}

Titles(csv) == {csv.rows[k].title : k \in DOMAIN csv.rows}

\* the download of the worker has failed (line 346 or line 347 raised)
download_failed(w) == w.pc = "raised" /\ w.stage = "download"

\* a row is appended by a worker that has details whose title is not in the
\* snapshot, and by nothing else
appends_checked ==
    (pp.phase = "running" /\ pp'.phase = "running" /\ pp'.csv # pp.csv) =>
        \E i \in DOMAIN pp.workers :
            /\ pp.workers[i].pc = "append" /\ pp'.workers[i].pc = "download"
            /\ ~paper_exists_in_list(pp.workers[i].details.title, pp.existing_papers)
            /\ pp'.csv.rows = Append(pp.csv.rows, row_of(pp.workers[i]))

\* a paper that is in the file when a run starts gets no PDF in that run
known_never_downloaded ==
    (pp.phase = "running" /\ pp'.phase = "running") =>
        \A k \in DOMAIN pp.existing_papers :
            pp.existing_papers[k] \notin pp.pdfs => pp.existing_papers[k] \notin pp'.pdfs

\* C25: a row is appended only for details whose title is not in the
\* snapshot, and before the download; after a failed download the row is in
\* the file and no PDF of the paper is on disk; a paper that is in the file
\* at the start of a run gets no PDF in that run.
C25_RowBeforePdfNoRollback ==
    /\ [][appends_checked /\ known_never_downloaded]_vars
    /\ [](\A i \in PaperWorkers :
            /\ (pp.workers[i].pc \in {"download", "done"} \/ download_failed(pp.workers[i]))
                  => pp.workers[i].wrote
            /\ download_failed(pp.workers[i]) =>
                  /\ \E k \in DOMAIN pp.csv.rows : pp.csv.rows[k] = row_of(pp.workers[i])
                  /\ pp.workers[i].details.title \notin pp.pdfs)

(***************************************************************************)
(* Properties of process_directory.                                        *)
(***************************************************************************)
\* the path contains one of the excluded names
has_excluded_name(path) == \E k \in DOMAIN exclude_dirs : Contains(path, exclude_dirs[k])

\* the step that takes an excluded directory from the pending ones
skips_excluded ==
    /\ dc.phase = "ready" /\ dc.pending # <<>>
    /\ has_excluded_name(Head(dc.pending).output_dir)

\* the step of one file task
file_task_step == dc.phase = "files" /\ dc'.phase = "files" /\ dc'.workers # dc.workers

\* C29: the subdirectories of a directory are begun one at a time and only
\* when every file task of the directory has ended, while the file tasks end
\* in any order; the step for an excluded directory makes no request (no
\* task, no subdirectory, no error of a request), and no file with an
\* excluded name in its path is fetched or written; a file task that fails
\* changes neither the other tasks nor the subdirectories that wait.
C29_FilesThenSubdirectories ==
    /\ [][ dc.phase # "idle" =>
           /\ (dc.phase = "files" /\ dc'.phase # "files") =>
                /\ \A i \in DOMAIN dc.workers : dc.workers[i].pc = "done"
                /\ dc'.phase = "ready"
                /\ dc'.pending = dc.subdirs \o dc.pending
           /\ dc'.dir # dc.dir => (dc.phase = "ready" /\ dc'.dir = Head(dc.pending))
           /\ skips_excluded =>
                /\ dc'.phase = "ready" /\ dc'.workers = <<>> /\ dc'.subdirs = <<>>
                /\ dc'.pending = Tail(dc.pending)
                /\ dc'.errors = dc.errors /\ dc'.pdfs = dc.pdfs
           /\ file_task_step =>
                /\ \E i \in DOMAIN dc.workers :
                      /\ dc.workers[i].pc = "start" /\ dc'.workers[i].pc = "done"
                      /\ \A j \in DOMAIN dc.workers \ {i} : dc'.workers[j] = dc.workers[j]
                /\ DOMAIN dc'.workers = DOMAIN dc.workers
                /\ dc'.subdirs = dc.subdirs /\ dc'.pending = dc.pending
                /\ dc'.dir = dc.dir ]_vars
    /\ [](dc.phase = "files" =>
            /\ ~has_excluded_name(dc.dir.output_dir)
            /\ dc.workers = doc_tasks(dc.dir.output_dir, contents_of(dc.dir.api_url))
                  \/ \E i \in DOMAIN dc.workers : dc.workers[i].pc = "done"
            /\ \A i \in DOMAIN dc.workers :
                  /\ dc.workers[i].name =
                        markdown_files(contents_of(dc.dir.api_url))[i].name
                  /\ ~has_excluded_name(dc.workers[i].path)
            /\ dc.subdirs = sub_directories(dc.dir.output_dir, contents_of(dc.dir.api_url)))
    /\ [](dc.phase # "idle" => \A path \in dc.pdfs : ~has_excluded_name(path))

\* the subdirectory "sub" is at its files after "translations" was skipped;
\* in the directory above, the task of a.md failed and that of b.mdx wrote
\* its file
C29_Witness ==
    /\ dc.phase = "files" /\ dc.dir.output_dir = "out/sub"
    /\ "out/a.pdf" \notin dc.pdfs
    /\ "out/b.pdfx" \in dc.pdfs
    /\ "out/sub/a.pdf" \in dc.pdfs

(***************************************************************************)
(* add_new_articles (get_article_content.py, lines 972-990): the rows of   *)
(* articles.csv whose article is not in articles_updated.csv are appended  *)
(* to articles_updated.csv.                                                *)
(***************************************************************************)
\* calls of add_new_articles in one behaviour
MaxCalls == 2

\* rows of articles.csv
NewArticleRows == {
    [article |-> "https://x.io/a", referrer |-> "r1"],
    [article |-> "https://x.io/a", referrer |-> "r2"],
    [article |-> "https://x.io/b", referrer |-> "NA"],
    [article |-> "", referrer |-> "r3"] }

\* articles.csv: up to two rows
OriginalFiles ==
    {<<>>} \cup {<<r>> : r \in NewArticleRows}
           \cup {<<p[1], p[2]>> : p \in NewArticleRows \X NewArticleRows}

\* articles_updated.csv before the first call: no file, the header alone, or
\* rows of earlier runs, each article once
UpdatedFiles == {
    [exists |-> FALSE, rows |-> <<>>],
    [exists |-> TRUE, rows |-> <<>>],
    [exists |-> TRUE,
     rows |-> << [title |-> "A", article |-> "https://x.io/a", referrer |-> "r0",
                  release_date |-> "NA"] >>],
    [exists |-> TRUE,
     rows |-> << [title |-> "C", article |-> "https://x.io/c", referrer |-> "r0",
                  release_date |-> "2023-01-01"],
                 [title |-> "null", article |-> "https://x.io/b", referrer |-> "",
                  release_date |-> ""] >>] }

\* line 978
read_original(file) ==
    [i \in DOMAIN file |->
        [article |-> parse_cell(file[i].article),
         referrer |-> parse_cell(file[i].referrer)]]

\* line 979
read_updated(rows) ==
    [i \in DOMAIN rows |->
        [title |-> parse_cell(rows[i].title), article |-> parse_cell(rows[i].article),
         referrer |-> parse_cell(rows[i].referrer),
         release_date |-> parse_cell(rows[i].release_date)]]

\* Series.isin: a NaN is in a column that has a NaN
isin(v, df) == \E k \in DOMAIN df : df[k].article = v

\* the rows whose article is in the updated frame already
known_articles(original_df, updated_df) ==
    select(original_df,
           [i \in DOMAIN original_df |-> isin(original_df[i].article, updated_df)])

\* line 983
new_articles(original_df, updated_df) ==
    select(original_df,
           [i \in DOMAIN original_df |-> ~isin(original_df[i].article, updated_df)])

\* pd.concat (line 988): the rows of articles.csv get the columns they lack,
\* as NaN
concat_articles(updated_df, new_df) ==
    updated_df \o [i \in DOMAIN new_df |->
                      [title |-> NaN, article |-> new_df[i].article,
                       referrer |-> new_df[i].referrer, release_date |-> NaN]]

\* drop_duplicates(subset='article') (line 988): the first row of each article
drop_duplicates_article(df) ==
    select(df, [i \in DOMAIN df |-> ~ \E j \in 1..(i - 1) : df[j].article = df[i].article])

\* line 990
write_updated(df) ==
    [i \in DOMAIN df |->
        [title |-> format_cell(df[i].title), article |-> format_cell(df[i].article),
         referrer |-> format_cell(df[i].referrer),
         release_date |-> format_cell(df[i].release_date)]]

\* lines 983-990: the rows of articles_updated.csv after the call
updated_rows(original, rows) ==
    IF new_articles(read_original(original), read_updated(rows)) = <<>> THEN rows
    ELSE write_updated(drop_duplicates_article(
             concat_articles(read_updated(rows),
                             new_articles(read_original(original), read_updated(rows)))))

NaInit ==
    /\ input_file = <<>>
    /\ files = EmptyFiles
    /\ domains_file = <<>>
    /\ last = LastNone
    /\ prevCat = PrevNone
    /\ adds = 0
    /\ cu = CuIdle
    /\ nl = Idle /\ pp = Idle /\ ar = Idle /\ dc = Idle
    /\ ft = Idle /\ rt = Idle
    /\ \E original \in OriginalFiles, updated \in UpdatedFiles :
           na = [phase |-> "ready", original |-> original, updated |-> updated,
                 updated0 |-> updated, before |-> updated, calls |-> 0,
                 wrote |-> FALSE]

\* add_new_articles, lines 972-990; pd.read_csv at line 979 raises
\* FileNotFoundError when articles_updated.csv is not there
add_new_articles ==
    /\ na.phase \in {"ready", "done"}
    /\ na.calls < MaxCalls
    /\ IF ~na.updated.exists
       THEN na' = [na EXCEPT !.phase = "raised", !.calls = na.calls + 1,
                             !.before = na.updated, !.wrote = FALSE]
       ELSE na' = [na EXCEPT !.phase = "done", !.calls = na.calls + 1,
                             !.before = na.updated,
                             !.wrote = new_articles(read_original(na.original),
                                                    read_updated(na.updated.rows)) # <<>>,
                             !.updated = [exists |-> TRUE,
                                          rows |-> updated_rows(na.original,
                                                                na.updated.rows)]]
    /\ UNCHANGED <<link_vars, cu, nl, pp, ar, dc, ft, rt>>

\* articles.csv gets another row between two calls (the categorization pass
\* has run)
articles_csv_grows ==
    /\ na.phase = "done"
    /\ na.calls < MaxCalls
    /\ Len(na.original) <= MaxCalls
    /\ \E r \in NewArticleRows :
          na' = [na EXCEPT !.phase = "ready", !.original = Append(na.original, r)]
    /\ UNCHANGED <<link_vars, cu, nl, pp, ar, dc, ft, rt>>

NaNext ==
    \/ add_new_articles
    \/ articles_csv_grows

SpecNewArticles == NaInit /\ [][NaNext]_vars

\* C30: after a call of add_new_articles that returns, every article of
\* articles.csv is an article of articles_updated.csv; the rows that were in
\* articles_updated.csv are its first rows, with the values they had; no
\* article is in it twice; a call that follows another call, with articles.csv
\* as it was, writes nothing and leaves the file as it is.
C30_NewArticlesAddedOnce ==
    /\ [](na.phase = "done" =>
            /\ \A i \in DOMAIN na.original :
                  \E k \in DOMAIN na.updated.rows :
                     parse_cell(na.updated.rows[k].article)
                        = parse_cell(na.original[i].article)
            /\ Len(na.updated.rows) >= Len(na.before.rows)
            /\ \A k \in DOMAIN na.before.rows :
                  read_updated(na.updated.rows)[k] = read_updated(na.before.rows)[k]
            /\ \A k \in DOMAIN na.updated0.rows :
                  read_updated(na.updated.rows)[k] = read_updated(na.updated0.rows)[k]
            /\ \A j, k \in DOMAIN na.updated.rows :
                  na.updated.rows[j].article = na.updated.rows[k].article => j = k)
    /\ [][(na.phase = "done" /\ na'.calls = na.calls + 1) =>
             (~na'.wrote /\ na'.updated = na.updated)]_vars

\* the second call has returned; the first had added a row for an article
\* that articles.csv has twice, next to a row of an article that the file had
C30_Witness ==
    /\ na.phase = "done" /\ na.calls = 2 /\ ~na.wrote
    /\ Len(na.original) = 2
    /\ na.original[1].article = na.original[2].article
    /\ na.original[1].referrer # na.original[2].referrer
    /\ Len(na.updated0.rows) = 2
    /\ Len(na.updated.rows) = 3
    /\ na.updated.rows[3].referrer = na.original[1].referrer

====
